---- MODULE Spec2Model ----
(***************************************************************************)
(* pdfgod: the retrieval / generation core.                                *)
(*                                                                         *)
(*   OllamaService   (lib/services/ollama)   connection check, generate,   *)
(*                                           getEmbeddings                 *)
(*   vector store    (lib/rag/vector-store)  two implementations exist in  *)
(*                                           the repository                *)
(*   POST            (api/chat route)        the chat request handler      *)
(*                                                                         *)
(* One thread of control runs at a time (a Node.js event loop serving one  *)
(* operation); a step of the model is the code between two awaits, and the *)
(* inference endpoint answers each network call nondeterministically.      *)
(***************************************************************************)
EXTENDS Integers, Sequences, FiniteSets, TLC

VARIABLES
    isConnected,    \* OllamaService.isConnected
    modelName,      \* OllamaService.modelName
    storeModule,    \* which implementation '@/lib/rag/vector-store' resolves to
    vectorStore,    \* the module's vectorStore singleton: <<>> is null
    storedDocuments,\* the module's storedDocuments list (MemoryVectorStore version)
    routeInit,      \* the chat route's isInitialized flag
    pc,             \* the label the running operation is at ("idle": none)
    stack,          \* return labels of the callers, innermost last
    op,             \* the operation in progress: its kind and its arguments
    i,              \* waitForConnection: the loop counter
    result,         \* what the last callee returned or threw
    prompt,         \* generate: the argument
    texts,          \* getEmbeddings: the argument
    embeddings,     \* getEmbeddings: the local accumulator
    contextChunks,  \* POST: the local contextChunks
    searchLog,      \* what the searchSimilarChunks calls of the operation gave
    connLog,        \* network trace of the current waitForConnection
    genLog,         \* generation requests issued by the current operation
    embLog,         \* embedding calls issued by the current getEmbeddings
    connBefore,     \* isConnected when the current checkConnection started
    response,       \* what the finished operation gave its caller
    dTags,          \* model selection alone: the /api/tags outcome
    dDetected,      \* model selection alone: the selected name
    rDocs,          \* ranking alone: this.documents
    rQuery,         \* ranking alone: queryEmbedding
    rK,             \* ranking alone: k
    rResult,        \* ranking alone: the positions of the documents returned
    sStub,          \* retrieval scenario: the tokenizer of the stub embedder
    aCalls,         \* concurrent addDocuments: each call's position and locals
    aStore,         \* concurrent addDocuments: the store's fields
    mProcs,         \* concurrent store functions: each caller's position and locals
    mObjs,          \* the MemoryVectorStore objects created, each with its documents
    mCur,           \* the module's vectorStore: an object of mObjs, 0 is null
    mStored,        \* the module's storedDocuments
    mCalls,         \* calls of the store functions started so far
    mPreClear,      \* the calls that had started when clearVectorStore last ran
    uMessages,      \* PDFChat: messages
    uIsLoading,     \* PDFChat: isLoading
    uError,         \* PDFChat: error
    uSelectedFile,  \* PDFChat: selectedFile
    uIsPDFMode,     \* PDFChat: isPDFMode
    uHandlers,      \* PDFChat: the handler calls made, each with its position
    spRequest,      \* split route: the file and ranges of the request, the pageCount
    spPc,           \* split route: the await the handler is at
    spCopied,       \* split route: the pages added to newPdf so far
    spTurns,        \* split route: the turns of the copy loop made
    spResponse      \* split route: the response returned

clientVars == <<isConnected, modelName>>
storeVars  == <<storeModule, vectorStore, storedDocuments, routeInit>>
callVars   == <<pc, stack, result>>
frameVars  == <<op, response, contextChunks, searchLog>>
argVars    == <<prompt, texts>>
loopVars   == <<i, embeddings>>
logVars    == <<connLog, genLog, embLog, connBefore>>
detectVars == <<dTags, dDetected>>
rankVars   == <<rDocs, rQuery, rK, rResult>>
scenarioVars == <<sStub>>
addVars    == <<aCalls, aStore>>
memVars    == <<mProcs, mObjs, mCur, mStored, mCalls, mPreClear>>
uiVars     == <<uMessages, uIsLoading, uError, uSelectedFile, uIsPDFMode, uHandlers>>
splitVars  == <<spRequest, spPc, spCopied, spTurns, spResponse>>
concVars   == <<addVars, memVars, uiVars, splitVars>>
auxVars    == <<detectVars, rankVars, scenarioVars, concVars>>
serverVars == <<clientVars, storeVars, callVars, frameVars, argVars, loopVars,
                logVars>>
vars       == <<clientVars, storeVars, callVars, frameVars, argVars, loopVars,
                logVars, auxVars>>

\* what no step of the OllamaService touches
outsideClient == <<storeVars, frameVars, argVars, auxVars>>

NULL == "null"

----------------------------------------------------------------------------
(* Bounds of the model *)

MaxModels == 3      \* models in one /api/tags listing
MaxTexts  == 3      \* texts in one getEmbeddings call

----------------------------------------------------------------------------
(* Data *)

\* A model name is a sequence of tokens, so that ===, startsWith and includes
\* are computed on it.
LLAMA32       == <<"llama3.2">>
LLAMA32_TAG   == <<"llama3.2", ":", "1b">>
LLAMA32_VIS   == <<"llama3.2", "-", "vision">>
MISTRAL       == <<"mistral">>
ModelNames    == {LLAMA32, LLAMA32_TAG, LLAMA32_VIS, MISTRAL}

SeqsUpTo(S, n) == UNION {[1..k -> S] : k \in 0..n}

Listings == SeqsUpTo(ModelNames, MaxModels)

\* What GET /api/tags can give: a transport error, a non-OK response, or a
\* body with a models array.
TagsOutcomes == {[kind |-> "neterr", models |-> <<>>],
                 [kind |-> "nonok",  models |-> <<>>]}
                \cup {[kind |-> "ok", models |-> l] : l \in Listings}

Texts   == {"t1", "t2"}
Vectors == {<<1, 0>>, <<1, 1>>, <<1, 0, 0>>}

\* The length of `data.embedding` is fixed by the model named in the request.
Dimension(model) == IF model = LLAMA32 THEN 2 ELSE 3

VectorsOf(model) == {v \in Vectors : Len(v) = Dimension(model)}
Prompts == {"p"}
Answers == {"a"}

TextLists == SeqsUpTo(Texts, MaxTexts)

\* What POST /api/generate and POST /api/embeddings can give.
GenOutcomes == {[kind |-> "neterr", text |-> ""], [kind |-> "nonok", text |-> "Bad"]}
               \cup {[kind |-> "ok", text |-> a] : a \in Answers}
EmbOutcomes(model) ==
    {[kind |-> "neterr", vec |-> <<>>], [kind |-> "nonok", vec |-> <<>>]}
    \cup {[kind |-> "ok", vec |-> v] : v \in VectorsOf(model)}

----------------------------------------------------------------------------
(* OllamaService: model selection *)

maxRetries == 3

startsWith(name, prefix) ==
    /\ Len(name) >= Len(prefix)
    /\ SubSeq(name, 1, Len(prefix)) = prefix

includes(name, token) == \E k \in 1..Len(name) : name[k] = token

\* `null` / `undefined` where a model name is expected
NoModel == <<>>

\* Array.prototype.find: the first of the elements at positions `hits`, or
\* none
FirstAt(models, hits) ==
    IF hits = {} THEN NoModel
    ELSE models[CHOOSE k \in hits : \A j \in hits : k <= j]

isLlama32(name) == name = LLAMA32 \/ startsWith(name, <<"llama3.2", ":">>)

\* data.models.find(model => model.name === 'llama3.2' || ...)
findLlama32(models) ==
    FirstAt(models, {k \in 1..Len(models) : isLlama32(models[k])})

isNonVision_Any(name) == TRUE

isNonVision(name) == ~includes(name, "vision")

\* data.models.find(model => !model.name.includes('vision'))
findNonVision(models) ==
    FirstAt(models, {k \in 1..Len(models) : isNonVision(models[k])})

detectAvailableModel(out) ==
    IF out.kind = "ok" /\ Len(out.models) > 0
    THEN IF findLlama32(out.models) # NoModel
         THEN LLAMA32
         ELSE findNonVision(out.models)
    ELSE NoModel

----------------------------------------------------------------------------
(* Control *)

Call(label, ret) ==
    /\ pc' = label
    /\ stack' = Append(stack, ret)

Return(val) ==
    /\ pc' = stack[Len(stack)]
    /\ stack' = SubSeq(stack, 1, Len(stack) - 1)
    /\ result' = val

Value(v)  == [tag |-> "return", payload |-> v]
Throw(e)  == [tag |-> "throw", payload |-> e]

NoResult == [tag |-> "none", payload |-> NULL]

ConnectionFailure == [isRunning |-> FALSE, error |-> "Could not connect to Ollama"]
ConnectionOk      == [isRunning |-> TRUE, error |-> NULL]

\* `new Error(message)`: the kind of failure and the upstream detail its
\* message carries
Error(kind, detail) == [error |-> kind, detail |-> detail]

----------------------------------------------------------------------------
(* OllamaService.checkConnection / waitForConnection *)

\* the wait between two attempts is skipped after the last one
ShouldWait(k) == k < maxRetries - 1

LoopContinues_OffByOne(k) == k <= maxRetries

LoopContinues_Always(k) == TRUE

\* the for loop's condition
LoopContinues(k) == k < maxRetries

\* a caller runs `await this.checkConnection()`
EnterCheckConnection(ret) ==
    /\ Call("wfc_attempt", ret)
    /\ i' = 0
    /\ connLog' = <<>>
    /\ connBefore' = isConnected

\* i++ and the loop test; the loop's exit is `return false`, which
\* checkConnection turns into its error value
NextIteration ==
    /\ i' = i + 1
    /\ IF LoopContinues(i + 1)
       THEN /\ pc' = "wfc_attempt"
            /\ UNCHANGED <<stack, result>>
       ELSE Return(Value(ConnectionFailure))

AttemptSucceeded_Always(detectedModel) == TRUE

\* `if (detectedModel)`
AttemptSucceeded(detectedModel) == detectedModel # NoModel

\* one attempt: detectAvailableModel() and what the loop body does with it
Discover ==
    /\ pc = "wfc_attempt"
    /\ \E out \in TagsOutcomes :
         LET detectedModel == detectAvailableModel(out) IN
         /\ connLog' = Append(connLog, IF detectedModel # NoModel
                                       THEN "tags_ok" ELSE "tags_fail")
         /\ IF AttemptSucceeded(detectedModel)
            THEN /\ modelName' = detectedModel
                 /\ isConnected' = TRUE
                 /\ Return(Value(ConnectionOk))
                 /\ i' = i
            ELSE /\ UNCHANGED clientVars
                 /\ IF ShouldWait(i)
                    THEN /\ pc' = "wfc_sleep"
                         /\ UNCHANGED <<stack, result, i>>
                    ELSE NextIteration
    /\ UNCHANGED <<embeddings, genLog, embLog, connBefore>>
    /\ UNCHANGED outsideClient

\* await sleep(this.retryDelay)
Sleep ==
    /\ pc = "wfc_sleep"
    /\ connLog' = Append(connLog, "sleep")
    /\ NextIteration
    /\ UNCHANGED clientVars
    /\ UNCHANGED <<embeddings, genLog, embLog, connBefore>>
    /\ UNCHANGED outsideClient

----------------------------------------------------------------------------
(* OllamaService.generate *)

NeedsCheck_Never == FALSE

\* the guard of the connection check at the head of generate / getEmbeddings
NeedsCheck == ~isConnected

GenerateRequest(p) == [model |-> modelName, prompt |-> p, stream |-> FALSE]

GenEntry ==
    /\ pc = "gen_entry"
    /\ IF NeedsCheck
       THEN /\ EnterCheckConnection("gen_checked")
            /\ UNCHANGED result
       ELSE /\ pc' = "gen_fetch"
            /\ UNCHANGED <<stack, i, connLog, connBefore, result>>
    /\ UNCHANGED clientVars
    /\ UNCHANGED <<embeddings, genLog, embLog>>
    /\ UNCHANGED outsideClient

GenChecked ==
    /\ pc = "gen_checked"
    /\ IF ~result.payload.isRunning
       THEN Return(Throw(Error("ConnectionError", result.payload.error)))
       ELSE /\ pc' = "gen_fetch"
            /\ UNCHANGED <<stack, result>>
    /\ UNCHANGED clientVars
    /\ UNCHANGED <<loopVars, logVars>>
    /\ UNCHANGED outsideClient

\* what generate gives for an answer of the endpoint: data.response, or the
\* error rethrown by its catch block
GenerateResult(out) ==
    IF out.kind = "ok"
    THEN Value(out.text)
    ELSE Throw(Error("GenerationError", out.text))

AfterCall_Disconnects(connected, out) == connected /\ out.kind = "ok"

\* this.isConnected after a generation or embedding call has answered: the
\* catch blocks log and rethrow, they do not touch the connection state
AfterCall(connected, out) == connected

GenFetch ==
    /\ pc = "gen_fetch"
    /\ \E out \in GenOutcomes :
         /\ genLog' = Append(genLog, [req |-> GenerateRequest(prompt), out |-> out])
         /\ Return(GenerateResult(out))
         /\ isConnected' = AfterCall(isConnected, out)
    /\ UNCHANGED modelName
    /\ UNCHANGED <<loopVars, connLog, embLog, connBefore>>
    /\ UNCHANGED outsideClient

----------------------------------------------------------------------------
(* OllamaService.getEmbeddings *)

TextAt_First(ts, k) == ts[1]

\* `for (const text of texts)`: the text of the k-th iteration
TextAt(ts, k) == ts[k]

\* the loop runs while texts are left
TextsLeft(ts, done) == Len(done) < Len(ts)

Pending == [kind |-> "pending", vec |-> <<>>]

EnterEmbedLoop ==
    /\ pc' = "emb_loop"
    /\ embeddings' = <<>>

EmbEntry ==
    /\ pc = "emb_entry"
    /\ embLog' = <<>>
    /\ IF NeedsCheck
       THEN /\ EnterCheckConnection("emb_checked")
            /\ UNCHANGED <<result, embeddings>>
       ELSE /\ EnterEmbedLoop
            /\ UNCHANGED <<stack, i, connLog, connBefore, result>>
    /\ UNCHANGED clientVars
    /\ UNCHANGED genLog
    /\ UNCHANGED outsideClient

EmbChecked ==
    /\ pc = "emb_checked"
    /\ IF ~result.payload.isRunning
       THEN /\ Return(Throw(Error("ConnectionError", result.payload.error)))
            /\ UNCHANGED embeddings
       ELSE /\ EnterEmbedLoop
            /\ UNCHANGED <<stack, result>>
    /\ UNCHANGED clientVars
    /\ UNCHANGED <<i, logVars>>
    /\ UNCHANGED outsideClient

\* the head of the loop: the next fetch is issued, or the list is returned
EmbLoop ==
    /\ pc = "emb_loop"
    /\ IF TextsLeft(texts, embeddings)
       THEN /\ embLog' = Append(embLog, [text  |-> TextAt(texts, Len(embeddings) + 1),
                                         model |-> modelName,
                                         resp  |-> Pending])
            /\ pc' = "emb_wait"
            /\ UNCHANGED <<stack, result>>
       ELSE /\ Return(Value(embeddings))
            /\ UNCHANGED embLog
    /\ UNCHANGED clientVars
    /\ UNCHANGED <<loopVars, connLog, genLog, connBefore>>
    /\ UNCHANGED outsideClient

EmbStep_StoresUndefined(acc, out) ==
    [next |-> "emb_loop", acc |-> Append(acc, IF out.kind = "ok" THEN out.vec ELSE <<>>)]

EmbStep_SkipFailure(acc, out) == [next |-> "emb_loop", acc |-> Append(acc, out.vec)]

\* what the loop body does with one answer of the endpoint: the vector is
\* pushed, or the catch block rethrows and the accumulator is dropped
EmbStep(acc, out) ==
    IF out.kind = "ok"
    THEN [next |-> "emb_loop", acc |-> Append(acc, out.vec)]
    ELSE [next |-> "throw", acc |-> acc]

EmbWait ==
    /\ pc = "emb_wait"
    /\ \E out \in EmbOutcomes(embLog[Len(embLog)].model) :
         LET step == EmbStep(embeddings, out) IN
         /\ embLog' = [embLog EXCEPT ![Len(embLog)].resp = out]
         /\ embeddings' = step.acc
         /\ IF step.next = "throw"
            THEN Return(Throw(Error("EmbeddingError", out.kind)))
            ELSE /\ pc' = step.next
                 /\ UNCHANGED <<stack, result>>
         /\ isConnected' = AfterCall(isConnected, out)
    /\ UNCHANGED modelName
    /\ UNCHANGED <<i, connLog, genLog, connBefore>>
    /\ UNCHANGED outsideClient

----------------------------------------------------------------------------
(* The OllamaService singleton called directly: its three public methods *)

NoResponse == NoResult

\* `let prompt: string;` before its assignment: the template not filled in
NoPrompt == [system |-> NULL, context |-> <<>>, history |-> <<>>, message |-> NULL]

\* an operation starts on the idle process: its locals are fresh
StartOp(o, label, rets, p, ts) ==
    /\ pc = "idle"
    /\ op' = o
    /\ pc' = label
    /\ stack' = rets
    /\ i' = 0
    /\ result' = NoResult
    /\ prompt' = p
    /\ texts' = ts
    /\ embeddings' = <<>>
    /\ response' = NoResponse
    /\ contextChunks' = <<>>
    /\ searchLog' = <<>>
    /\ connLog' = <<>>
    /\ genLog' = <<>>
    /\ embLog' = <<>>
    /\ connBefore' = isConnected

\* an operation and its arguments
Op(kind, message, history, isPDFMode, chunks) ==
    [kind |-> kind, message |-> message, history |-> history,
     isPDFMode |-> isPDFMode, chunks |-> chunks]

MethodCall(kind) == Op(kind, "", <<>>, FALSE, <<>>)

NoOp == MethodCall("none")

\* The three methods are exercised on a process that has served no chat
\* request yet: no step of the client reads the store.
FreshProcess == vectorStore = <<>> /\ storedDocuments = <<>> /\ ~routeInit

ApiCheckConnection ==
    /\ FreshProcess
    /\ StartOp(MethodCall("checkConnection"), "wfc_attempt", <<"api_done">>, NoPrompt, <<>>)
    /\ UNCHANGED <<clientVars, storeVars, auxVars>>

ApiGenerate ==
    /\ FreshProcess
    /\ \E p \in Prompts :
         StartOp(MethodCall("generate"), "gen_entry", <<"api_done">>, p, <<>>)
    /\ UNCHANGED <<clientVars, storeVars, auxVars>>

ApiGetEmbeddings ==
    /\ FreshProcess
    /\ \E ts \in TextLists :
         StartOp(MethodCall("getEmbeddings"), "emb_entry", <<"api_done">>, NoPrompt, ts)
    /\ UNCHANGED <<clientVars, storeVars, auxVars>>

\* the call settles: its promise resolves or rejects
ApiDone ==
    /\ pc = "api_done"
    /\ pc' = "idle"
    /\ response' = result
    /\ UNCHANGED <<stack, result, op, contextChunks, searchLog>>
    /\ UNCHANGED <<clientVars, storeVars, argVars, loopVars, logVars, auxVars>>

----------------------------------------------------------------------------
(* The vector store: what both implementations share *)

Simple == storeModule = "SimpleVectorStore"
Memory == storeModule = "MemoryVectorStore"

TopKDefault == 3

NewStore(initialized) == <<[isInitialized |-> initialized, documents |-> <<>>]>>

StoreExists == vectorStore # <<>>
Documents == IF StoreExists THEN vectorStore[1].documents ELSE <<>>
StoreInitialized == StoreExists /\ vectorStore[1].isInitialized

Pairs_FirstVector(chunks, vecs) ==
    [k \in 1..Len(chunks) |-> [pageContent |-> chunks[k], embedding |-> vecs[1]]]

Pairs_Reversed(chunks, vecs) ==
    [k \in 1..Len(chunks) |->
        [pageContent |-> chunks[Len(chunks) + 1 - k], embedding |-> vecs[k]]]

\* documents.map((doc, i) => ({pageContent, embedding: embeddings[i]}))
Pairs(chunks, vecs) ==
    [k \in 1..Len(chunks) |-> [pageContent |-> chunks[k], embedding |-> vecs[k]]]

\* a.reduce((sum, val, i) => sum + val * b[i], 0)
RECURSIVE DotFrom(_, _, _)
DotFrom(a, b, k) ==
    IF k > Len(a) THEN 0 ELSE a[k] * b[k] + DotFrom(a, b, k + 1)

Dot(a, b) == DotFrom(a, b, 1)

\* cosineSimilarity(a, b) is NaN: b[i] is undefined for some i of a, or a
\* magnitude is 0
IsNaN(a, b) == Len(b) < Len(a) \/ Dot(a, a) = 0 \/ Dot(b, b) = 0

ScoresHigher_SwappedNorms(q, a, b) ==
    Dot(q, a) * Dot(q, a) * Dot(a, a) > Dot(q, b) * Dot(q, b) * Dot(b, b)

\* cosineSimilarity(q, a) > cosineSimilarity(q, b) when neither is NaN:
\* dot(q,a) / (|q||a|) against dot(q,b) / (|q||b|), compared exactly
ScoresHigher(q, a, b) ==
    LET da == Dot(q, a)
        db == Dot(q, b)
        na == Dot(a, a)
        nb == Dot(b, b)
    IN  IF da >= 0 /\ db >= 0 THEN da * da * nb > db * db * na
        ELSE IF da >= 0 THEN TRUE
        ELSE IF db >= 0 THEN FALSE
        ELSE da * da * nb < db * db * na

\* the comparator (a, b) => b.score - a.score is negative for the entries of
\* positions a and b; a NaN difference counts as 0
Negative(docs, q, a, b) ==
    /\ ~IsNaN(q, docs[a].embedding)
    /\ ~IsNaN(q, docs[b].embedding)
    /\ ScoresHigher(q, docs[a].embedding, docs[b].embedding)

\* the table of the comparator's negative results over the entries
Negatives(docs, q) ==
    [a \in 1..Len(docs) |-> [b \in 1..Len(docs) |-> Negative(docs, q, a, b)]]

\* the comparator gives 0 for the two positions
Zero(neg, a, b) == ~neg[a][b] /\ ~neg[b][a]

\* the comparator is a consistent comparator for the entries: what it calls
\* equal is transitive (its negative and positive results come from a
\* comparison of numbers, and are)
Consistent(neg) ==
    \A a, b, c \in DOMAIN neg :
        Zero(neg, a, b) /\ Zero(neg, b, c) => Zero(neg, a, c)

SortsBefore_Unstable(neg, a, b) ==
    \/ neg[a][b]
    \/ /\ Zero(neg, a, b)
       /\ a > b

\* position a comes before position b after the (stable) descending sort
SortsBefore(neg, a, b) ==
    \/ neg[a][b]
    \/ /\ Zero(neg, a, b)
       /\ a < b

\* the positions in sorted order, for a consistent comparator
Ranked(neg) ==
    [r \in DOMAIN neg |->
        CHOOSE a \in DOMAIN neg :
            Cardinality({b \in DOMAIN neg : b # a /\ SortsBefore(neg, b, a)}) = r - 1]

Orderings(n) ==
    {f \in [1..n -> 1..n] : \A a, b \in 1..n : a # b => f[a] # f[b]}

\* similarities.sort((a, b) => b.score - a.score): the orders the sort can
\* leave the positions in. The sort is stable; with a comparator that is not
\* consistent the order is implementation-defined.
Sorted(docs, q) ==
    LET neg == Negatives(docs, q)
    IN  IF Consistent(neg) THEN {Ranked(neg)} ELSE Orderings(Len(docs))

Min(a, b) == IF a <= b THEN a ELSE b

\* .slice(0, k)
Slice(order, k) == SubSeq(order, 1, Min(k, Len(order)))

\* .map(({index}) => documents[index].pageContent)
TopK(docs, order, k) ==
    [r \in 1..Len(Slice(order, k)) |-> docs[order[r]].pageContent]

\* what no step of the store touches
outsideStore == <<clientVars, op, response, contextChunks, searchLog, prompt, auxVars>>

----------------------------------------------------------------------------
(* vector-store.ts: SimpleVectorStore and its module functions *)

\* SimpleVectorStore.initialize()
SvInit ==
    /\ pc = "sv_init"
    /\ IF StoreInitialized
       THEN /\ Return(Value("void"))
            /\ UNCHANGED <<i, connLog, connBefore>>
       ELSE /\ EnterCheckConnection("sv_init_checked")
            /\ UNCHANGED result
    /\ UNCHANGED <<storeVars, texts, embeddings, genLog, embLog>>
    /\ UNCHANGED outsideStore

SvInitChecked ==
    /\ pc = "sv_init_checked"
    /\ IF ~result.payload.isRunning
       THEN /\ Return(Throw(Error("ConnectionError", result.payload.error)))
            /\ UNCHANGED vectorStore
       ELSE /\ vectorStore' = <<[vectorStore[1] EXCEPT !.isInitialized = TRUE]>>
            /\ Return(Value("void"))
    /\ UNCHANGED <<storeModule, storedDocuments, routeInit>>
    /\ UNCHANGED <<texts, loopVars, logVars>>
    /\ UNCHANGED outsideStore

\* initializeVectorStore()
Ivs ==
    /\ pc = "ivs"
    /\ IF ~StoreExists
       THEN /\ vectorStore' = NewStore(FALSE)
            /\ Call("sv_init", "ivs_inited")
            /\ UNCHANGED result
       ELSE /\ Return(Value("store"))
            /\ UNCHANGED vectorStore
    /\ UNCHANGED <<storeModule, storedDocuments, routeInit>>
    /\ UNCHANGED <<texts, loopVars, logVars>>
    /\ UNCHANGED outsideStore

\* a callee threw and this frame has no handler, or it returned: the caller
\* of this frame gets the same
Propagate == Return(result)

IvsInited ==
    /\ pc = "ivs_inited"
    /\ IF result.tag = "throw" THEN Propagate ELSE Return(Value("store"))
    /\ UNCHANGED <<storeVars, texts, loopVars, logVars>>
    /\ UNCHANGED outsideStore

\* addDocumentsToStore(chunks): const store = await initializeVectorStore()
Adts ==
    /\ pc = "adts"
    /\ Call("ivs", "adts_store")
    /\ UNCHANGED <<result, storeVars, texts, loopVars, logVars>>
    /\ UNCHANGED outsideStore

\* SimpleVectorStore.addDocuments reaches its getEmbeddings call
CallGetEmbeddings(ts, ret) ==
    /\ texts' = ts
    /\ Call("emb_entry", ret)

\* store.addDocuments(documents), up to its first await
AdtsStore ==
    /\ pc = "adts_store"
    /\ IF result.tag = "throw"
       THEN /\ Propagate
            /\ UNCHANGED texts
       ELSE IF ~StoreInitialized
       THEN /\ Call("sv_init", "add_inited")
            /\ UNCHANGED <<result, texts>>
       ELSE /\ CallGetEmbeddings(op.chunks, "add_push")
            /\ UNCHANGED result
    /\ UNCHANGED <<storeVars, loopVars, logVars>>
    /\ UNCHANGED outsideStore

AddInited ==
    /\ pc = "add_inited"
    /\ IF result.tag = "throw"
       THEN /\ Propagate
            /\ UNCHANGED texts
       ELSE /\ CallGetEmbeddings(op.chunks, "add_push")
            /\ UNCHANGED result
    /\ UNCHANGED <<storeVars, loopVars, logVars>>
    /\ UNCHANGED outsideStore

\* this.documents.push(...), or the catch block's rethrow
AddPush ==
    /\ pc = "add_push"
    /\ IF result.tag = "throw"
       THEN /\ Propagate
            /\ UNCHANGED vectorStore
       ELSE /\ vectorStore' = <<[vectorStore[1] EXCEPT
                                   !.documents = @ \o Pairs(op.chunks, result.payload)]>>
            /\ Return(Value("void"))
    /\ UNCHANGED <<storeModule, storedDocuments, routeInit>>
    /\ UNCHANGED <<texts, loopVars, logVars>>
    /\ UNCHANGED outsideStore

\* searchSimilarChunks(query): const store = await initializeVectorStore()
Ssc ==
    /\ pc = "ssc"
    /\ Call("ivs", "ssc_store")
    /\ UNCHANGED <<result, storeVars, texts, loopVars, logVars>>
    /\ UNCHANGED outsideStore

\* similaritySearch after initialize(): the empty store answers at once,
\* otherwise the query is embedded
SearchBody ==
    IF Documents = <<>>
    THEN /\ Return(Value(<<>>))
         /\ UNCHANGED texts
    ELSE /\ CallGetEmbeddings(<<op.message>>, "ss_rank")
         /\ UNCHANGED result

SscStore ==
    /\ pc = "ssc_store"
    /\ IF result.tag = "throw"
       THEN /\ Propagate
            /\ UNCHANGED texts
       ELSE IF ~StoreInitialized
       THEN /\ Call("sv_init", "ss_inited")
            /\ UNCHANGED <<result, texts>>
       ELSE SearchBody
    /\ UNCHANGED <<storeVars, loopVars, logVars>>
    /\ UNCHANGED outsideStore

SsInited ==
    /\ pc = "ss_inited"
    /\ IF result.tag = "throw"
       THEN /\ Propagate
            /\ UNCHANGED texts
       ELSE SearchBody
    /\ UNCHANGED <<storeVars, loopVars, logVars>>
    /\ UNCHANGED outsideStore

\* the ranking, or the catch block's `return []`
SsRank ==
    /\ pc = "ss_rank"
    /\ IF result.tag = "throw"
       THEN Return(Value(<<>>))
       ELSE \E order \in Sorted(Documents, result.payload[1]) :
              Return(Value(TopK(Documents, order, TopKDefault)))
    /\ UNCHANGED <<storeVars, texts, loopVars, logVars>>
    /\ UNCHANGED outsideStore

----------------------------------------------------------------------------
(* The MemoryVectorStore version of the module (pdf-processor.ts, second  *)
(* part). The langchain store embeds through its own OllamaEmbeddings      *)
(* client: one awaited call that stores every vector or throws.            *)

\* new OllamaEmbeddings({model: "llama3.2", baseUrl})
EmbeddingsModel == LLAMA32

VectorLists(n) == [1..n -> VectorsOf(EmbeddingsModel)]

\* metadata: { id: `doc-${storedDocuments.length + index}` }
DocId(stored, index) == Len(stored) + index

NewDocs(stored, chunks) ==
    [k \in 1..Len(chunks) |-> [id |-> DocId(stored, k - 1), pageContent |-> chunks[k]]]

PageContents(docs) == [k \in 1..Len(docs) |-> docs[k].pageContent]

\* initializeVectorStore()
Ivm ==
    /\ pc = "ivm"
    /\ IF StoreExists
       THEN /\ Return(Value("store"))
            /\ UNCHANGED <<i, connLog, connBefore>>
       ELSE /\ EnterCheckConnection("ivm_checked")
            /\ UNCHANGED result
    /\ UNCHANGED <<storeVars, texts, embeddings, genLog, embLog>>
    /\ UNCHANGED outsideStore

\* after the connection check: the new store, and the stored documents put
\* back into it
IvmChecked ==
    /\ pc = "ivm_checked"
    /\ IF ~result.payload.isRunning
       THEN /\ Return(Throw(Error("InitError", result.payload.error)))
            /\ UNCHANGED vectorStore
       ELSE IF storedDocuments = <<>>
       THEN /\ vectorStore' = NewStore(TRUE)
            /\ Return(Value("store"))
       ELSE \E ok \in BOOLEAN, vecs \in VectorLists(Len(storedDocuments)) :
              IF ok
              THEN /\ vectorStore' = <<[isInitialized |-> TRUE,
                                        documents |-> Pairs(PageContents(storedDocuments), vecs)]>>
                   /\ Return(Value("store"))
              ELSE /\ vectorStore' = NewStore(TRUE)
                   /\ Return(Throw(Error("InitError", "embeddings")))
    /\ UNCHANGED <<storeModule, storedDocuments, routeInit>>
    /\ UNCHANGED <<texts, loopVars, logVars>>
    /\ UNCHANGED outsideStore

\* addDocumentsToStore(documents)
Adtm ==
    /\ pc = "adtm"
    /\ IF ~StoreExists
       THEN Call("ivm", "adtm_inited")
       ELSE /\ pc' = "adtm_embed"
            /\ UNCHANGED stack
    /\ UNCHANGED <<result, storeVars, texts, loopVars, logVars>>
    /\ UNCHANGED outsideStore

AdtmInited ==
    /\ pc = "adtm_inited"
    /\ IF result.tag = "throw"
       THEN Return(Throw(Error("AddError", result.payload.error)))
       ELSE /\ pc' = "adtm_embed"
            /\ UNCHANGED <<stack, result>>
    /\ UNCHANGED <<storeVars, texts, loopVars, logVars>>
    /\ UNCHANGED outsideStore

\* await vectorStore.addDocuments(docs); storedDocuments.push(...docs)
AdtmEmbed ==
    /\ pc = "adtm_embed"
    /\ \E ok \in BOOLEAN, vecs \in VectorLists(Len(op.chunks)) :
         IF ok
         THEN /\ vectorStore' = <<[vectorStore[1] EXCEPT
                                     !.documents = @ \o Pairs(op.chunks, vecs)]>>
              /\ storedDocuments' = storedDocuments \o NewDocs(storedDocuments, op.chunks)
              /\ Return(Value("void"))
         ELSE /\ UNCHANGED <<vectorStore, storedDocuments>>
              /\ Return(Throw(Error("AddError", "embeddings")))
    /\ UNCHANGED <<storeModule, routeInit>>
    /\ UNCHANGED <<texts, loopVars, logVars>>
    /\ UNCHANGED outsideStore

\* searchSimilarChunks after the store exists
SearchBodyM ==
    IF storedDocuments = <<>>
    THEN Return(Value(<<>>))
    ELSE /\ pc' = "sscm_query"
         /\ UNCHANGED <<stack, result>>

\* searchSimilarChunks(query)
Sscm ==
    /\ pc = "sscm"
    /\ IF ~StoreExists
       THEN /\ Call("ivm", "sscm_inited")
            /\ UNCHANGED result
       ELSE SearchBodyM
    /\ UNCHANGED <<storeVars, texts, loopVars, logVars>>
    /\ UNCHANGED outsideStore

SscmInited ==
    /\ pc = "sscm_inited"
    /\ IF result.tag = "throw"
       THEN Return(Throw(Error("SearchError", result.payload.error)))
       ELSE SearchBodyM
    /\ UNCHANGED <<storeVars, texts, loopVars, logVars>>
    /\ UNCHANGED outsideStore

\* await vectorStore.similaritySearch(query, 3)
SscmQuery ==
    /\ pc = "sscm_query"
    /\ \E out \in EmbOutcomes(EmbeddingsModel) :
         IF out.kind = "ok"
         THEN \E order \in Sorted(Documents, out.vec) :
                Return(Value(TopK(Documents, order, TopKDefault)))
         ELSE Return(Throw(Error("SearchError", out.kind)))
    /\ UNCHANGED <<storeVars, texts, loopVars, logVars>>
    /\ UNCHANGED outsideStore

\* clearVectorStore()
ClearVectorStore ==
    /\ Memory
    /\ StartOp(MethodCall("clearVectorStore"), "idle", <<>>, NoPrompt, <<>>)
    /\ vectorStore' = <<>>
    /\ storedDocuments' = <<>>
    /\ UNCHANGED <<storeModule, routeInit>>
    /\ UNCHANGED <<clientVars, auxVars>>

----------------------------------------------------------------------------
(* The chat route: POST *)

MaxStore == 2       \* chunks the store is let grow to

Messages  == {"", "t1"}
Histories == {<<>>, <<[role |-> "user", content |-> "h"]>>}

ChunkLists(n) == SeqsUpTo(Texts, n) \ {<<>>}

\* the bodies the route is sent: a query, or an ingestion (which may carry a
\* message as well)
QueryRequests ==
    {Op("POST", m, h, d, <<>>) : m \in Messages, h \in Histories, d \in BOOLEAN}

IngestRequests(n) ==
    {Op("POST", m, <<>>, TRUE, c) : m \in Messages, c \in ChunkLists(n)}

StoreSize == IF Memory THEN Len(storedDocuments) ELSE Len(Documents)

\* NextResponse.json(body, {status})
Reply(code, kind, text, context) ==
    [code |-> code, kind |-> kind, text |-> text, context |-> context]

Respond(r) ==
    /\ pc' = "idle"
    /\ response' = r
    /\ stack' = <<>>

Prompt_NoContext(system, context, history, message) ==
    [system |-> system, context |-> <<>>, history |-> history, message |-> message]

Prompt_NoHistory(system, context, history, message) ==
    [system |-> system, context |-> context, history |-> <<>>, message |-> message]

\* the prompt template filled in; the chunks stand for their join
Prompt(system, context, history, message) ==
    [system |-> system, context |-> context, history |-> history, message |-> message]

\* what no step of the route touches
outsideRoute == <<clientVars, storeModule, vectorStore, storedDocuments, op, texts,
                  loopVars, logVars, auxVars>>

HasChunks_UnlessMessage(o) == Len(o.chunks) > 0 /\ o.message = ""

\* `chunks && chunks.length > 0`
HasChunks(o) == Len(o.chunks) > 0

\* a request arrives: `await ollama.checkConnection()`
PostRequest ==
    /\ \E req \in QueryRequests \cup IngestRequests(MaxStore - StoreSize) :
         StartOp(req, "wfc_attempt", <<"post_status">>, NoPrompt, <<>>)
    /\ UNCHANGED <<clientVars, storeVars, auxVars>>

\* ensureVectorStore()
Ensure ==
    /\ pc = "ensure"
    /\ IF routeInit
       THEN Return(Value("void"))
       ELSE /\ Call(IF Simple THEN "ivs" ELSE "ivm", "ensure_inited")
            /\ UNCHANGED result
    /\ UNCHANGED <<routeInit, response, contextChunks, searchLog, prompt>>
    /\ UNCHANGED outsideRoute

EnsureInited ==
    /\ pc = "ensure_inited"
    /\ IF result.tag = "throw"
       THEN /\ Propagate
            /\ UNCHANGED routeInit
       ELSE /\ routeInit' = TRUE
            /\ Return(Value("void"))
    /\ UNCHANGED <<response, contextChunks, searchLog, prompt>>
    /\ UNCHANGED outsideRoute

\* the outer catch block
InternalError(e) == Reply(500, "InternalError", e.error, <<>>)

WantsContext_Always(o) == TRUE

WantsContext_Never(o) == FALSE

\* `if (isPDFMode)`
WantsContext(o) == o.isPDFMode

\* after the connection check: the 503, the ingestion, the 400, the
\* retrieval, or the plain prompt
PostStatus ==
    /\ pc = "post_status"
    /\ IF ~result.payload.isRunning
       THEN /\ Respond(Reply(503, "ServiceUnavailable", result.payload.error, <<>>))
            /\ UNCHANGED <<result, prompt>>
       ELSE IF HasChunks(op)
       THEN /\ Call("ensure", "post_ingest")
            /\ UNCHANGED <<result, prompt, response>>
       ELSE IF op.message = ""
       THEN /\ Respond(Reply(400, "ValidationFailed", "Message is required", <<>>))
            /\ UNCHANGED <<result, prompt>>
       ELSE IF WantsContext(op)
       THEN /\ Call("ensure", "post_search")
            /\ UNCHANGED <<result, prompt, response>>
       ELSE /\ prompt' = Prompt("plain", <<>>, op.history, op.message)
            /\ Call("gen_entry", "post_generated")
            /\ UNCHANGED <<result, response>>
    /\ UNCHANGED <<routeInit, contextChunks, searchLog>>
    /\ UNCHANGED outsideRoute

\* await addDocumentsToStore(chunks)
PostIngest ==
    /\ pc = "post_ingest"
    /\ IF result.tag = "throw"
       THEN /\ Respond(InternalError(result.payload))
            /\ UNCHANGED result
       ELSE /\ Call(IF Simple THEN "adts" ELSE "adtm", "post_added")
            /\ UNCHANGED <<result, response>>
    /\ UNCHANGED <<routeInit, contextChunks, searchLog, prompt>>
    /\ UNCHANGED outsideRoute

PostAdded ==
    /\ pc = "post_added"
    /\ IF result.tag = "throw"
       THEN Respond(InternalError(result.payload))
       ELSE Respond(Reply(200, "success", "", <<>>))
    /\ UNCHANGED <<result, routeInit, contextChunks, searchLog, prompt>>
    /\ UNCHANGED outsideRoute

\* the catch block around the retrieval
RetrievalError == Reply(500, "RetrievalFailed", "Failed to retrieve context", <<>>)

\* contextChunks = await searchSimilarChunks(message)
PostSearch ==
    /\ pc = "post_search"
    /\ IF result.tag = "throw"
       THEN /\ Respond(RetrievalError)
            /\ UNCHANGED result
       ELSE /\ Call(IF Simple THEN "ssc" ELSE "sscm", "post_searched")
            /\ UNCHANGED <<result, response>>
    /\ UNCHANGED <<routeInit, contextChunks, searchLog, prompt>>
    /\ UNCHANGED outsideRoute

NoContext_Never(chunks) == FALSE

\* `if (contextChunks.length === 0)`
NoContext(chunks) == Len(chunks) = 0

\* the search has answered: the 404, or the prompt with the context and
\* `await ollama.generate(prompt)`
PostSearched ==
    /\ pc = "post_searched"
    /\ searchLog' = Append(searchLog, result)
    /\ IF result.tag = "throw"
       THEN /\ Respond(RetrievalError)
            /\ UNCHANGED <<result, prompt, contextChunks>>
       ELSE /\ contextChunks' = result.payload
            /\ IF NoContext(result.payload)
               THEN /\ Respond(Reply(404, "NoRelevantContext",
                                     "No relevant information found in the PDF", <<>>))
                    /\ UNCHANGED <<result, prompt>>
               ELSE /\ prompt' = Prompt("pdf", result.payload, op.history, op.message)
                    /\ Call("gen_entry", "post_generated")
                    /\ UNCHANGED <<result, response>>
    /\ UNCHANGED routeInit
    /\ UNCHANGED outsideRoute

\* the answer, or the catch block around generate
PostGenerated ==
    /\ pc = "post_generated"
    /\ IF result.tag = "throw"
       THEN Respond(Reply(500, "GenerationFailed", result.payload.error, <<>>))
       ELSE Respond(Reply(200, "answer", result.payload, contextChunks))
    /\ UNCHANGED <<result, routeInit, contextChunks, searchLog, prompt>>
    /\ UNCHANGED outsideRoute

----------------------------------------------------------------------------
(* Concurrent calls of SimpleVectorStore.addDocuments on one store: the    *)
(* calls interleave at their await points                                  *)

MaxAdders == 2      \* calls of addDocuments in flight
MaxBatch == 2       \* documents of one call

AddCalls == 1..MaxAdders

\* the k-th text of call c is named <<c, k>>
BatchOf(c, n) == [k \in 1..n |-> <<c, k>>]

\* a call: where it is, its argument, the embeddings local of getEmbeddings
\* and what the endpoint answered it
NotCalled == [pc |-> "idle", texts |-> <<>>, embeddings |-> <<>>]

AddVectors == {<<1, 0>>, <<1, 1>>}

\* addDocuments(documents) up to its first await: initialize() when the
\* store is not initialized, else the first embedding request
AddCalled(c) ==
    /\ aCalls[c].pc = "idle"
    /\ \E n \in 1..MaxBatch :
         aCalls' = [aCalls EXCEPT ![c] =
                       [pc |-> IF aStore.isInitialized THEN "fetch" ELSE "init",
                        texts |-> BatchOf(c, n), embeddings |-> <<>>]]
    /\ UNCHANGED aStore

\* await this.initialize(): the connection check has answered
AddInitialized(c) ==
    /\ aCalls[c].pc = "init"
    /\ \E isRunning \in BOOLEAN :
         IF isRunning
         THEN /\ aStore' = [aStore EXCEPT !.isInitialized = TRUE]
              /\ aCalls' = [aCalls EXCEPT ![c].pc = "fetch"]
         ELSE /\ aCalls' = [aCalls EXCEPT ![c].pc = "failed"]
              /\ UNCHANGED aStore

\* the endpoint answers the embedding request for the next text: the vector
\* goes to the call's embeddings, or the call throws
AddFetched(c) ==
    /\ aCalls[c].pc = "fetch"
    /\ \E ok \in BOOLEAN, vec \in AddVectors :
         LET step == EmbStep(aCalls[c].embeddings,
                             [kind |-> IF ok THEN "ok" ELSE "neterr", vec |-> vec])
         IN  aCalls' = [aCalls EXCEPT
                 ![c].embeddings = step.acc,
                 ![c].pc = IF step.next = "throw" THEN "failed"
                           ELSE IF Len(step.acc) = Len(aCalls[c].texts) THEN "push"
                           ELSE "fetch"]
    /\ UNCHANGED aStore

\* getEmbeddings has returned: this.documents.push(...)
AddPushed(c) ==
    /\ aCalls[c].pc = "push"
    /\ aStore' = [aStore EXCEPT
           !.documents = @ \o Pairs(aCalls[c].texts, aCalls[c].embeddings)]
    /\ aCalls' = [aCalls EXCEPT ![c].pc = "done"]

NextAdd ==
    /\ \E c \in AddCalls :
         AddCalled(c) \/ AddInitialized(c) \/ AddFetched(c) \/ AddPushed(c)
    /\ UNCHANGED <<serverVars, detectVars, rankVars, scenarioVars, memVars, uiVars, splitVars>>

----------------------------------------------------------------------------
(* Concurrent calls of the functions of the MemoryVectorStore module       *)
(* (pdf-processor.ts): initializeVectorStore, addDocumentsToStore,         *)
(* searchSimilarChunks interleave at their await points, clearVectorStore  *)
(* is synchronous                                                          *)

MaxMemCalls == 3    \* calls started in a run

MemProcs == {1, 2}

MemKinds == {"initializeVectorStore", "addDocumentsToStore", "searchSimilarChunks"}

\* a caller that is in no call
Returned_Idle == [pc |-> "idle", kind |-> "none", call |-> 0, n |-> 0,
                  docs |-> <<>>, obj |-> 0]

\* a call that has a store runs up to its next await: initializeVectorStore
\* returns, addDocumentsToStore makes its documents and awaits
\* vectorStore.addDocuments(docs), searchSimilarChunks returns [] for no
\* stored document and else awaits vectorStore.similaritySearch
WithStore(kind, call, n, cur, stored) ==
    IF kind = "addDocumentsToStore"
    THEN [pc |-> "add_wait", kind |-> kind, call |-> call, n |-> n,
          docs |-> NewDocs(stored, BatchOf(call, n)), obj |-> cur]
    ELSE IF kind = "searchSimilarChunks" /\ stored # <<>>
    THEN [pc |-> "search_wait", kind |-> kind, call |-> call, n |-> n,
          docs |-> <<>>, obj |-> cur]
    ELSE Returned_Idle

\* a function is called: with no store it awaits the connection check of
\* initializeVectorStore
MemCalled(p) ==
    /\ mProcs[p].pc = "idle"
    /\ mCalls < MaxMemCalls
    /\ mCalls' = mCalls + 1
    /\ \E kind \in MemKinds :
         \E n \in (IF kind = "addDocumentsToStore" THEN 1..MaxBatch ELSE {0}) :
            mProcs' = [mProcs EXCEPT ![p] =
                IF mCur # 0
                THEN WithStore(kind, mCalls + 1, n, mCur, mStored)
                ELSE [pc |-> "init_check", kind |-> kind, call |-> mCalls + 1,
                      n |-> n, docs |-> <<>>, obj |-> 0]]
    /\ UNCHANGED <<mObjs, mCur, mStored, mPreClear>>

\* initializeVectorStore after its connection check: the throw, or the new
\* store, into which the stored documents are put back
MemInitChecked(p) ==
    /\ mProcs[p].pc = "init_check"
    /\ \E isRunning \in BOOLEAN :
         IF ~isRunning
         THEN /\ mProcs' = [mProcs EXCEPT ![p] = Returned_Idle]
              /\ UNCHANGED <<mObjs, mCur>>
         ELSE /\ mObjs' = Append(mObjs, <<>>)
              /\ mCur' = Len(mObjs) + 1
              /\ mProcs' = [mProcs EXCEPT ![p] =
                    IF mStored # <<>>
                    THEN [@ EXCEPT !.pc = "init_restore", !.docs = mStored,
                                   !.obj = Len(mObjs) + 1]
                    ELSE WithStore(@.kind, @.call, @.n, Len(mObjs) + 1, mStored)]
    /\ UNCHANGED <<mStored, mCalls, mPreClear>>

\* await vectorStore.addDocuments(storedDocuments) of initializeVectorStore
\* has answered
MemRestored(p) ==
    /\ mProcs[p].pc = "init_restore"
    /\ \E ok \in BOOLEAN :
         IF ok
         THEN /\ mObjs' = [mObjs EXCEPT ![mProcs[p].obj] = @ \o mProcs[p].docs]
              /\ mProcs' = [mProcs EXCEPT ![p] =
                    IF mCur # 0
                    THEN WithStore(@.kind, @.call, @.n, mCur, mStored)
                    ELSE Returned_Idle]
         ELSE /\ mProcs' = [mProcs EXCEPT ![p] = Returned_Idle]
              /\ UNCHANGED mObjs
    /\ UNCHANGED <<mCur, mStored, mCalls, mPreClear>>

\* await vectorStore.addDocuments(docs) of addDocumentsToStore has answered:
\* storedDocuments.push(...docs), or the throw
MemAdded(p) ==
    /\ mProcs[p].pc = "add_wait"
    /\ \E ok \in BOOLEAN :
         IF ok
         THEN /\ mObjs' = [mObjs EXCEPT ![mProcs[p].obj] = @ \o mProcs[p].docs]
              /\ mStored' = mStored \o mProcs[p].docs
         ELSE UNCHANGED <<mObjs, mStored>>
    /\ mProcs' = [mProcs EXCEPT ![p] = Returned_Idle]
    /\ UNCHANGED <<mCur, mCalls, mPreClear>>

\* await vectorStore.similaritySearch(query, 3) has answered
MemSearched(p) ==
    /\ mProcs[p].pc = "search_wait"
    /\ mProcs' = [mProcs EXCEPT ![p] = Returned_Idle]
    /\ UNCHANGED <<mObjs, mCur, mStored, mCalls, mPreClear>>

\* clearVectorStore()
MemCleared ==
    /\ mCur # 0 \/ mStored # <<>> \/ mPreClear # 1..mCalls
    /\ mCur' = 0
    /\ mStored' = <<>>
    /\ mPreClear' = 1..mCalls
    /\ UNCHANGED <<mProcs, mObjs, mCalls>>

NextMem ==
    /\ \/ \E p \in MemProcs :
            \/ MemCalled(p)
            \/ MemInitChecked(p)
            \/ MemRestored(p)
            \/ MemAdded(p)
            \/ MemSearched(p)
       \/ MemCleared
    /\ UNCHANGED <<serverVars, detectVars, rankVars, scenarioVars, addVars, uiVars, splitVars>>

----------------------------------------------------------------------------
(* The chat component (pdf-chat.tsx, PDFChat): handleFileUpload and        *)
(* handleSubmit interleave at their awaits; the Send button is disabled    *)
(* while isLoading, the drop zone never is                                 *)

MaxHandlers == 3    \* handler calls made in a run

Files == {"a.pdf", "b.pdf"}

Inputs == {"", "q"}

\* the messages of the list: the one typed, the answer to the submission
\* `of`, the greeting of an upload (`seen`: the handler calls made when it
\* was set)
UserMessage(id, text) == [role |-> "user", content |-> text, of |-> id, seen |-> 0]
Answer(id)            == [role |-> "assistant", content |-> "answer", of |-> id, seen |-> 0]
Greeting(file, n)     == [role |-> "assistant", content |-> file, of |-> 0, seen |-> n]

Handler(kind, at, arg) == [kind |-> kind, pc |-> at, arg |-> arg]

\* handleFileUpload up to `await loadAndProcessPDF(file)`; with no file it
\* returns at once
UploadCalled ==
    /\ Len(uHandlers) < MaxHandlers
    /\ \E file \in Files \cup {NULL} :
         IF file = NULL
         THEN UNCHANGED uiVars
         ELSE /\ uIsLoading' = TRUE
              /\ uError' = NULL
              /\ uMessages' = <<>>
              /\ uSelectedFile' = NULL
              /\ uIsPDFMode' = FALSE
              /\ uHandlers' = Append(uHandlers, Handler("upload", "process", file))

UploadFailed_KeepsFile(h) ==
    /\ uError' = "Failed to process PDF"
    /\ uIsPDFMode' = FALSE
    /\ uMessages' = <<>>
    /\ uIsLoading' = FALSE
    /\ uHandlers' = [uHandlers EXCEPT ![h].pc = "failed"]
    /\ UNCHANGED uSelectedFile

\* the catch and finally blocks of handleFileUpload
UploadFailed(h) ==
    /\ uError' = "Failed to process PDF"
    /\ uSelectedFile' = NULL
    /\ uIsPDFMode' = FALSE
    /\ uMessages' = <<>>
    /\ uIsLoading' = FALSE
    /\ uHandlers' = [uHandlers EXCEPT ![h].pc = "failed"]

\* loadAndProcessPDF has settled: the fetch of /api/chat, or the catch
UploadProcessed(h) ==
    /\ uHandlers[h].pc = "process"
    /\ \E ok \in BOOLEAN :
         IF ok
         THEN /\ uHandlers' = [uHandlers EXCEPT ![h].pc = "fetch"]
              /\ UNCHANGED <<uMessages, uIsLoading, uError, uSelectedFile, uIsPDFMode>>
         ELSE UploadFailed(h)

\* the fetch of the upload has settled: step 3 and finally, or the catch
UploadResponded(h) ==
    /\ uHandlers[h].kind = "upload"
    /\ uHandlers[h].pc = "fetch"
    /\ \E ok \in BOOLEAN :
         IF ok
         THEN /\ uSelectedFile' = uHandlers[h].arg
              /\ uIsPDFMode' = TRUE
              /\ uMessages' = <<Greeting(uHandlers[h].arg, Len(uHandlers))>>
              /\ uIsLoading' = FALSE
              /\ uHandlers' = [uHandlers EXCEPT ![h].pc = "done"]
              /\ UNCHANGED uError
         ELSE UploadFailed(h)

\* handleSubmit up to its fetch; Send is disabled while isLoading, and a
\* blank message returns at once
SubmitCalled ==
    /\ ~uIsLoading
    /\ Len(uHandlers) < MaxHandlers
    /\ \E message \in Inputs :
         IF message = ""
         THEN UNCHANGED uiVars
         ELSE /\ uMessages' = Append(uMessages, UserMessage(Len(uHandlers) + 1, message))
              /\ uIsLoading' = TRUE
              /\ uError' = NULL
              /\ uHandlers' = Append(uHandlers, Handler("submit", "fetch", message))
              /\ UNCHANGED <<uSelectedFile, uIsPDFMode>>

\* the fetch of the submission has settled: the answer is appended to the
\* list as it is then, or the error is set; finally
SubmitResponded(h) ==
    /\ uHandlers[h].kind = "submit"
    /\ uHandlers[h].pc = "fetch"
    /\ \E ok \in BOOLEAN :
         IF ok
         THEN /\ uMessages' = Append(uMessages, Answer(h))
              /\ uHandlers' = [uHandlers EXCEPT ![h].pc = "done"]
              /\ UNCHANGED uError
         ELSE /\ uError' = "Failed to get response"
              /\ uHandlers' = [uHandlers EXCEPT ![h].pc = "failed"]
              /\ UNCHANGED uMessages
    /\ uIsLoading' = FALSE
    /\ UNCHANGED <<uSelectedFile, uIsPDFMode>>

NextUI ==
    /\ \/ UploadCalled
       \/ SubmitCalled
       \/ \E h \in 1..Len(uHandlers) :
            \/ UploadProcessed(h)
            \/ UploadResponded(h)
            \/ SubmitResponded(h)
    /\ UNCHANGED <<serverVars, detectVars, rankVars, scenarioVars, addVars, memVars, splitVars>>

----------------------------------------------------------------------------
(* The split route (POST): the ranges are validated, then copied *)

MaxPages == 2       \* pages of the source PDF
MaxRanges == 2      \* ranges of a request

\* the ranges a request may name, the invalid ones included
PageRanges == [start : 0..(MaxPages + 1), end : 0..(MaxPages + 1)]

NoSplit == [file |-> FALSE, ranges |-> <<>>, pageCount |-> 0]

\* the status and, for the PDF, its pages as page numbers of the source
SplitReply(code, pdf) == [code |-> code, pdf |-> pdf]

InvalidRange_NoUpperBound(range, pageCount) ==
    range.start < 1 \/ range.start > range.end

\* the test of the validation loop
InvalidRange(range, pageCount) ==
    range.start < 1 \/ range.end > pageCount \/ range.start > range.end

\* the indices handed to copyPages
Indices(range) == [n \in 1..(range.end - range.start + 1) |-> range.start + (n - 1) - 1]

\* the pages copyPages gives for them (0: no such page in the source)
CopyPages(pageCount, indices) ==
    [n \in 1..Len(indices) |->
        IF indices[n] \in 0..(pageCount - 1) THEN indices[n] + 1 ELSE 0]

SplitDone(r) ==
    /\ spPc' = "done"
    /\ spResponse' = r

\* a request arrives: await req.formData(), the test of the file; the
\* route keeps nothing from one request to the next, so one request is
\* followed to its response
SplitRequest ==
    /\ spPc = "idle"
    /\ spCopied' = <<>>
    /\ spTurns' = 0
    /\ \E file \in BOOLEAN, ranges \in SeqsUpTo(PageRanges, MaxRanges) :
         /\ spRequest' = [file |-> file, ranges |-> ranges, pageCount |-> 0]
         /\ IF ~file
            THEN SplitDone(SplitReply(400, <<>>))
            ELSE /\ spPc' = "load"
                 /\ spResponse' = SplitReply(0, <<>>)

\* where the copy loop stands after `turns` turns: at copyPages of the
\* next range, or past the loop at newPdf.save()
LoopAt(turns) == IF turns < Len(spRequest.ranges) THEN "copy" ELSE "save"

\* PDFDocument.load has settled: the validation loop, PDFDocument.create()
SplitLoaded ==
    /\ spPc = "load"
    /\ UNCHANGED <<spCopied, spTurns>>
    /\ \E ok \in BOOLEAN, pageCount \in 1..MaxPages :
         IF ~ok
         THEN /\ SplitDone(SplitReply(500, <<>>))
              /\ UNCHANGED spRequest
         ELSE /\ spRequest' = [spRequest EXCEPT !.pageCount = pageCount]
              /\ IF \E k \in 1..Len(spRequest.ranges) :
                        InvalidRange(spRequest.ranges[k], pageCount)
                 THEN SplitDone(SplitReply(400, <<>>))
                 ELSE /\ spPc' = LoopAt(0)
                      /\ UNCHANGED spResponse

\* one turn of the copy loop: copyPages has settled, its pages are added
SplitCopied ==
    /\ spPc = "copy"
    /\ UNCHANGED spRequest
    /\ \E ok \in BOOLEAN :
         IF ~ok
         THEN /\ SplitDone(SplitReply(500, <<>>))
              /\ UNCHANGED <<spCopied, spTurns>>
         ELSE /\ spCopied' = spCopied \o CopyPages(spRequest.pageCount,
                                  Indices(spRequest.ranges[spTurns + 1]))
              /\ spTurns' = spTurns + 1
              /\ spPc' = LoopAt(spTurns + 1)
              /\ UNCHANGED spResponse

\* newPdf.save() has settled: the PDF is returned
SplitSaved ==
    /\ spPc = "save"
    /\ UNCHANGED <<spRequest, spCopied, spTurns>>
    /\ \E ok \in BOOLEAN :
         SplitDone(SplitReply(IF ok THEN 200 ELSE 500, IF ok THEN spCopied ELSE <<>>))

NextSplit ==
    /\ SplitRequest \/ SplitLoaded \/ SplitCopied \/ SplitSaved
    /\ UNCHANGED <<serverVars, detectVars, rankVars, scenarioVars, addVars, memVars, uiVars>>

----------------------------------------------------------------------------
(* The server process *)

Init ==
    /\ isConnected = FALSE
    /\ modelName = LLAMA32
    /\ pc = "idle"
    /\ stack = <<>>
    /\ op = NoOp
    /\ i = 0
    /\ result = NoResult
    /\ prompt = NoPrompt
    /\ texts = <<>>
    /\ embeddings = <<>>
    /\ contextChunks = <<>>
    /\ searchLog = <<>>
    /\ storeModule \in {"SimpleVectorStore", "MemoryVectorStore"}
    /\ vectorStore = <<>>
    /\ storedDocuments = <<>>
    /\ routeInit = FALSE
    /\ connLog = <<>>
    /\ genLog = <<>>
    /\ embLog = <<>>
    /\ connBefore = FALSE
    /\ response = NoResponse
    /\ dTags = [kind |-> "neterr", models |-> <<>>]
    /\ dDetected = <<"pending">>
    /\ rDocs = <<>>
    /\ rQuery = <<1, 0>>
    /\ rK = 0
    /\ rResult = <<0>>
    /\ sStub = "none"
    /\ aCalls = [c \in AddCalls |-> NotCalled]
    /\ aStore = [isInitialized |-> FALSE, documents |-> <<>>]
    /\ mProcs = [p \in MemProcs |-> Returned_Idle]
    /\ mObjs = <<>>
    /\ mCur = 0
    /\ mStored = <<>>
    /\ mCalls = 0
    /\ mPreClear = {}
    /\ uMessages = <<>>
    /\ uIsLoading = FALSE
    /\ uError = NULL
    /\ uSelectedFile = NULL
    /\ uIsPDFMode = FALSE
    /\ uHandlers = <<>>
    /\ spRequest = NoSplit
    /\ spPc = "idle"
    /\ spCopied = <<>>
    /\ spTurns = 0
    /\ spResponse = SplitReply(0, <<>>)

Next ==
    \/ ApiCheckConnection
    \/ ApiGenerate
    \/ ApiGetEmbeddings
    \/ ApiDone
    \/ Discover
    \/ Sleep
    \/ GenEntry
    \/ GenChecked
    \/ GenFetch
    \/ EmbEntry
    \/ EmbChecked
    \/ EmbLoop
    \/ EmbWait
    \/ SvInit
    \/ SvInitChecked
    \/ Ivs
    \/ IvsInited
    \/ Adts
    \/ AdtsStore
    \/ AddInited
    \/ AddPush
    \/ Ssc
    \/ SscStore
    \/ SsInited
    \/ SsRank
    \/ Ivm
    \/ IvmChecked
    \/ Adtm
    \/ AdtmInited
    \/ AdtmEmbed
    \/ Sscm
    \/ SscmInited
    \/ SscmQuery
    \/ ClearVectorStore
    \/ PostRequest
    \/ Ensure
    \/ EnsureInited
    \/ PostStatus
    \/ PostIngest
    \/ PostAdded
    \/ PostSearch
    \/ PostSearched
    \/ PostGenerated

Spec == Init /\ [][Next]_vars

\* the steps of the chat route and of what it calls: every step of the
\* program but the direct calls of the methods of OllamaService, and but
\* the return of the connection check that generate and getEmbeddings make
\* when the service is not connected; the route calls them only after its
\* own connection check has succeeded, so they never enter theirs, and
\* Labels leaves the two positions out
NextChat ==
    \/ Discover
    \/ Sleep
    \/ GenEntry
    \/ GenFetch
    \/ EmbEntry
    \/ EmbLoop
    \/ EmbWait
    \/ SvInit
    \/ SvInitChecked
    \/ Ivs
    \/ IvsInited
    \/ Adts
    \/ AdtsStore
    \/ AddInited
    \/ AddPush
    \/ Ssc
    \/ SscStore
    \/ SsInited
    \/ SsRank
    \/ Ivm
    \/ IvmChecked
    \/ Adtm
    \/ AdtmInited
    \/ AdtmEmbed
    \/ Sscm
    \/ SscmInited
    \/ SscmQuery
    \/ ClearVectorStore
    \/ PostRequest
    \/ Ensure
    \/ EnsureInited
    \/ PostStatus
    \/ PostIngest
    \/ PostAdded
    \/ PostSearch
    \/ PostSearched
    \/ PostGenerated

\* the positions of the thread of control in a chat request
Labels ==
    {"idle", "wfc_attempt", "wfc_sleep",
     "gen_entry", "gen_fetch",
     "emb_entry", "emb_loop", "emb_wait",
     "sv_init", "sv_init_checked", "ivs", "ivs_inited",
     "adts", "adts_store", "add_inited", "add_push",
     "ssc", "ssc_store", "ss_inited", "ss_rank",
     "ivm", "ivm_checked", "adtm", "adtm_inited", "adtm_embed",
     "sscm", "sscm_inited", "sscm_query",
     "ensure", "ensure_inited", "post_status", "post_ingest", "post_added",
     "post_search", "post_searched", "post_generated"}

\* the request in progress moves to its next position: an awaited call of
\* the inference endpoint completes or fails, a timer fires, a
\* continuation runs
Advances == pc # "idle" /\ pc' \in Labels

\* the chat route with every awaited call eventually completing or
\* failing; the arrival of a request is not forced
FairSpec == Init /\ [][NextChat]_vars /\ WF_pc(Advances)

----------------------------------------------------------------------------
(* Model selection alone: detectAvailableModel applied to every answer of  *)
(* the model-listing call                                                  *)

NotDetected == <<"pending">>

\* the endpoint answers GET /api/tags
TagsAnswer ==
    /\ dDetected' = NotDetected
    /\ \E out \in TagsOutcomes : dTags' = out
    /\ UNCHANGED <<serverVars, rankVars, scenarioVars, concVars>>

Detect ==
    /\ dDetected = NotDetected
    /\ dDetected' = detectAvailableModel(dTags)
    /\ UNCHANGED dTags
    /\ UNCHANGED <<serverVars, rankVars, scenarioVars, concVars>>

NextDetect == TagsAnswer \/ Detect

DetectSpec == Init /\ [][NextDetect]_vars

----------------------------------------------------------------------------
(* The ranking alone: the body of similaritySearch applied to every store  *)
(* of vectors, query embedding and k                                       *)

MaxDocs == 4        \* documents in the store that is ranked

NotRanked == <<0>>

RankVectors == Vectors \cup {<<1, 1, 0>>}

\* this.documents.push(...): the store grows by a document, whose text is
\* named after its position
DocumentPushed ==
    /\ Len(rDocs) < MaxDocs
    /\ \E v \in RankVectors :
         rDocs' = Append(rDocs, [pageContent |-> Len(rDocs) + 1, embedding |-> v])
    /\ rResult' = NotRanked
    /\ rQuery' = <<1, 0>>
    /\ rK' = 0
    /\ UNCHANGED <<serverVars, detectVars, scenarioVars, concVars>>

\* similaritySearch(query, k) once the query is embedded: the early return
\* of the empty store, or the sort and the slice
Searched ==
    /\ rResult = NotRanked
    /\ \E q \in RankVectors :
         /\ rQuery' = q
         /\ IF rDocs = <<>>
            THEN \E k \in 0..(MaxDocs + 1) :
                   rK' = k /\ rResult' = <<>>
            ELSE \E order \in Sorted(rDocs, q), k \in 0..(MaxDocs + 1) :
                   rK' = k /\ rResult' = TopK(rDocs, order, k)
    /\ UNCHANGED rDocs
    /\ UNCHANGED <<serverVars, detectVars, scenarioVars, concVars>>

NextRank == DocumentPushed \/ Searched

RankSpec == Init /\ [][NextRank]_vars

----------------------------------------------------------------------------
(* The retrieval scenario: addDocuments and similaritySearch of the        *)
(* SimpleVectorStore over sentences embedded by a stub that sets one        *)
(* component per word of the text                                           *)

MaxCorpus == 3      \* sentences ingested

\* the texts, as the words between their blanks
CatSat     == <<"The", "cat", "sat.">>
RainFell   == <<"Rain", "fell", "hard.">>
CatSlept   == <<"The", "cat", "slept.">>
WhereSleep == <<"Where", "did", "the", "cat", "sleep?">>

Sentences == {CatSat, RainFell, CatSlept, WhereSleep}

\* how the stub makes a token of a word: as it stands, without its
\* punctuation, or without punctuation and in lower case
Stubs == {"raw", "stripped", "folded"}

Strip(w) ==
    CASE w = "sat." -> "sat"
      [] w = "hard." -> "hard"
      [] w = "slept." -> "slept"
      [] w = "sleep?" -> "sleep"
      [] OTHER -> w

Lower(w) ==
    CASE w = "The" -> "the"
      [] w = "Rain" -> "rain"
      [] w = "Where" -> "where"
      [] OTHER -> w

Token(stub, w) ==
    IF stub = "raw" THEN w
    ELSE IF stub = "stripped" THEN Strip(w)
    ELSE Lower(Strip(w))

\* one component of the vector per token
Vocabulary ==
    <<"The", "the", "cat", "sat.", "sat", "Rain", "rain", "fell", "hard.",
      "hard", "slept.", "slept", "Where", "where", "did", "sleep?", "sleep">>

\* the stub's embedding of a text: 1 where the token occurs in it
StubEmbed(stub, text) ==
    [k \in 1..Len(Vocabulary) |->
        IF \E j \in 1..Len(text) : Token(stub, text[j]) = Vocabulary[k]
        THEN 1 ELSE 0]

NoStub == "none"

\* addDocuments of one sentence: this.documents.push({pageContent, embedding})
Ingested ==
    /\ Len(rDocs) < MaxCorpus
    /\ \E stub \in (IF sStub = NoStub THEN Stubs ELSE {sStub}), text \in Sentences :
         /\ sStub' = stub
         /\ rDocs' = Append(rDocs, [pageContent |-> text,
                                   embedding |-> StubEmbed(stub, text)])
    /\ rResult' = NotRanked
    /\ rQuery' = <<1, 0>>
    /\ rK' = 0
    /\ UNCHANGED <<serverVars, detectVars, concVars>>

\* similaritySearch(query) on the store since its last change: the query's
\* embedding, the scores, the sort and the slice of the default k
Queried ==
    /\ rK = 0
    /\ rDocs # <<>>
    /\ \E text \in Sentences :
         LET queryEmbedding == StubEmbed(sStub, text) IN
         /\ rQuery' = queryEmbedding
         /\ \E order \in Sorted(rDocs, queryEmbedding) :
              rResult' = TopK(rDocs, order, TopKDefault)
    /\ rK' = TopKDefault
    /\ UNCHANGED <<rDocs, sStub>>
    /\ UNCHANGED <<serverVars, detectVars, concVars>>

NextScenario == Ingested \/ Queried

ScenarioSpec == Init /\ [][NextScenario]_vars

----------------------------------------------------------------------------
(* The specifications of the concurrent calls *)

AddSpec == Init /\ [][NextAdd]_vars

MemSpec == Init /\ [][NextMem]_vars

UISpec == Init /\ [][NextUI]_vars

SplitSpec == Init /\ [][NextSplit]_vars

----------------------------------------------------------------------------
(* Properties of the chat route *)

Count(log, e) == Cardinality({k \in 1..Len(log) : log[k] = e})

\* the connection check last run by the operation found the endpoint
CheckSucceeded == Count(connLog, "tags_ok") = 1

IsPost == op.kind = "POST"
IsQuery == IsPost /\ Len(op.chunks) = 0 /\ op.message # ""
IsDocumentQuery == IsQuery /\ op.isPDFMode
IsIngest == IsPost /\ Len(op.chunks) > 0
Settled == pc = "idle"

\* the texts of the chunks the store holds, in order
StoredTexts ==
    IF Memory THEN PageContents(storedDocuments) ELSE PageContents(Documents)

\* the search of this request returned no chunk
EmptyRetrieval ==
    /\ searchLog # <<>>
    /\ searchLog[1].tag = "return"
    /\ searchLog[1].payload = <<>>

\* C1: a document-mode query whose similarity search returned zero chunks
\* is answered NoRelevantContext and makes no generation call; a
\* document-mode query against an empty store never gets a generated answer:
\* it is answered NoRelevantContext unless a connection check of the request
\* failed
C1_NoUngroundedAnswer ==
    /\ (IsPost /\ op.isPDFMode /\ EmptyRetrieval) =>
          /\ genLog = <<>>
          /\ pc \notin {"gen_entry", "gen_checked", "gen_fetch", "post_generated"}
          /\ Settled /\ response.kind = "NoRelevantContext"
    /\ (IsDocumentQuery /\ StoreSize = 0) =>
          /\ genLog = <<>>
          /\ Settled =>
                \/ response.kind = "NoRelevantContext" /\ EmptyRetrieval
                \/ /\ response.kind \in {"ServiceUnavailable", "RetrievalFailed"}
                   /\ ~CheckSucceeded

C1_Witness ==
    /\ IsDocumentQuery
    /\ Settled
    /\ StoreSize = 0
    /\ EmptyRetrieval
    /\ response.code = 404

\* C2: after a document has been ingested the store holds exactly the chunks
\* of that document and none of an earlier one (the statement of the claim;
\* the code appends and nothing on the ingestion path clears the store)
C2_IngestReplacesCorpus ==
    (IsIngest /\ Settled /\ response.kind = "success") => StoredTexts = op.chunks

----------------------------------------------------------------------------
(* Properties of the Model Client *)

\* the labels a checkConnection() call returns to, with its result in `result`
CheckReturnLabels ==
    {"gen_checked", "emb_checked", "sv_init_checked", "ivm_checked", "post_status"}

AtCheckReturn ==
    \/ pc \in CheckReturnLabels
    \/ pc = "api_done" /\ op.kind = "checkConnection"

Attempts(log) == Count(log, "tags_ok") + Count(log, "tags_fail")

IsAttempt(e) == e \in {"tags_ok", "tags_fail"}

\* attempts and waits alternate, starting with an attempt
Alternates(log) ==
    \A k \in 1..Len(log) : IF k % 2 = 1 THEN IsAttempt(log[k]) ELSE log[k] = "sleep"

\* j attempts of which the first j - 1 failed, a wait between any two
FailuresThen(j, last) ==
    [k \in 1..(2 * j - 1) |->
        IF k = 2 * j - 1 THEN last ELSE IF k % 2 = 1 THEN "tags_fail" ELSE "sleep"]

\* C3: a checkConnection() invoked while the client is Connected issues no
\* discovery call (the statement of the claim; the code has no such fast path)
C3_FastPathWhenConnected ==
    connBefore => Attempts(connLog) = 0

\* C4: one checkConnection() never makes more than maxRetries discovery
\* attempts, waits retryDelay between any two consecutive attempts, and
\* reports failure only after exactly maxRetries failed attempts
C4_RetryBound ==
    /\ Attempts(connLog) <= maxRetries
    /\ Alternates(connLog)
    /\ (AtCheckReturn /\ ~result.payload.isRunning)
          => connLog = FailuresThen(maxRetries, "tags_fail")

C4_Witness ==
    /\ AtCheckReturn
    /\ ~result.payload.isRunning
    /\ Attempts(connLog) = maxRetries
    /\ Count(connLog, "sleep") = maxRetries - 1

\* C5: after a checkConnection() that exhausted its retries the client is not
\* Connected, whatever it was before; after a successful one it is Connected
\* (the statement of the claim; the code never resets isConnected)
C5_FailedAfterExhaustion ==
    AtCheckReturn =>
        IF result.payload.isRunning
        THEN isConnected /\ modelName # NoModel /\ result.tag = "return"
        ELSE ~isConnected /\ result.tag = "return"

\* C6: failed attempts are retried inside the loop: the check succeeds after
\* exactly j attempts when attempt j is the first successful one and makes no
\* further discovery call, and it reports failure exactly when all
\* maxRetries attempts failed
C6_RetriedUntilFirstSuccess ==
    /\ \A k \in 1..Len(connLog) : connLog[k] = "tags_ok" => k = Len(connLog)
    /\ AtCheckReturn =>
          IF result.payload.isRunning
          THEN \E j \in 1..maxRetries : connLog = FailuresThen(j, "tags_ok")
          ELSE connLog = FailuresThen(maxRetries, "tags_fail")
    /\ AtCheckReturn => (result.payload.isRunning <=> Count(connLog, "tags_ok") = 1)

C6_Witness ==
    /\ AtCheckReturn
    /\ result.payload.isRunning
    /\ connLog = FailuresThen(2, "tags_ok")

\* the labels generate() and getEmbeddings() return to
GenerateReturnLabels == {"post_generated"}
EmbedReturnLabels == {"add_push", "ss_rank"}

AtGenerateReturn ==
    \/ pc \in GenerateReturnLabels
    \/ pc = "api_done" /\ op.kind = "generate"

AtEmbedReturn ==
    \/ pc \in EmbedReturnLabels
    \/ pc = "api_done" /\ op.kind = "getEmbeddings"

Failed(out) == out.kind \in {"neterr", "nonok"}

\* C8: generate() issues a generation call only when Connected, after a
\* successful checkConnection() if it was not; when that check fails it throws
\* and issues no generation call; otherwise it issues exactly one call, with
\* streaming disabled, and returns the response text or throws a
\* generation error carrying the upstream text
C8_GenerateRequiresConnected ==
    /\ (pc = "gen_fetch" \/ genLog # <<>>) =>
            /\ isConnected
            /\ connBefore \/ CheckSucceeded
    /\ Len(genLog) <= 1
    /\ AtGenerateReturn =>
          IF ~connBefore /\ ~CheckSucceeded
          THEN /\ Attempts(connLog) > 0
               /\ result.tag = "throw"
               /\ result.payload.error = "ConnectionError"
               /\ genLog = <<>>
          ELSE /\ Len(genLog) = 1
               /\ genLog[1].req = [model |-> modelName, prompt |-> prompt,
                                   stream |-> FALSE]
               /\ result = IF genLog[1].out.kind = "ok"
                           THEN Value(genLog[1].out.text)
                           ELSE Throw(Error("GenerationError", genLog[1].out.text))

C8_Witness ==
    /\ AtGenerateReturn
    /\ ~connBefore
    /\ connLog = FailuresThen(maxRetries, "tags_fail")
    /\ result.tag = "throw"
    /\ genLog = <<>>

\* C9: getEmbeddings(texts) issues its calls one at a time, the k-th call for
\* the k-th text and only after the calls before it have completed; on
\* success it made exactly one call per text and returns, in input order,
\* the vector answered for each text
C9_OneCallPerTextInOrder ==
    /\ Len(embLog) <= Len(texts)
    /\ \A k \in 1..Len(embLog) :
          /\ embLog[k].text = texts[k]
          /\ k < Len(embLog) => embLog[k].resp.kind = "ok"
    /\ (AtEmbedReturn /\ result.tag = "return") =>
          /\ Len(embLog) = Len(texts)
          /\ Len(result.payload) = Len(texts)
          /\ \A k \in 1..Len(texts) :
                /\ embLog[k].resp.kind = "ok"
                /\ result.payload[k] = embLog[k].resp.vec

C9_Witness ==
    /\ AtEmbedReturn
    /\ result.tag = "return"
    /\ Len(texts) = 2
    /\ texts[1] # texts[2]
    /\ result.payload[1] # result.payload[2]

\* C10: when the embedding call for a text fails, getEmbeddings issues no
\* further call, throws an embedding error and returns none of the vectors
\* it had obtained
C10_FailureAborts ==
    /\ \A k \in 1..Len(embLog) :
          Failed(embLog[k].resp) =>
              /\ k = Len(embLog)
              /\ pc \notin {"emb_loop", "emb_wait"}
    /\ (AtEmbedReturn /\ embLog # <<>> /\ Failed(embLog[Len(embLog)].resp)) =>
          result = Throw(Error("EmbeddingError", embLog[Len(embLog)].resp.kind))

C10_Witness ==
    /\ AtEmbedReturn
    /\ Len(texts) = 3
    /\ Len(embLog) = 2
    /\ embLog[1].resp.kind = "ok"
    /\ Failed(embLog[2].resp)
    /\ result.tag = "throw"

----------------------------------------------------------------------------
(* Properties of model selection *)

Detected == dDetected # NotDetected

IsExactlyPreferred(name) == name = LLAMA32

IsPreferredOrTagged(name) ==
    \/ name = LLAMA32
    \/ Len(name) >= 2 /\ name[1] = "llama3.2" /\ name[2] = ":"

HasNoVision(name) == \A k \in 1..Len(name) : name[k] # "vision"

\* the first listed model without 'vision' in its name, if any
FirstWithoutVision(models) ==
    IF \E k \in 1..Len(models) : HasNoVision(models[k])
    THEN models[CHOOSE k \in 1..Len(models) :
                    /\ HasNoVision(models[k])
                    /\ \A j \in 1..(k - 1) : ~HasNoVision(models[j])]
    ELSE NoModel

Usable(out) == IF out.kind = "ok" THEN out.models ELSE <<>>

\* C7 as stated: the preferred model is chosen only on an exact name match,
\* otherwise the first listed model that is not excluded, otherwise none
C7_ExactPreferredMatch ==
    Detected =>
        dDetected = IF \E k \in 1..Len(Usable(dTags)) : IsExactlyPreferred(Usable(dTags)[k])
                    THEN LLAMA32
                    ELSE FirstWithoutVision(Usable(dTags))

\* C7 amended: 'llama3.2' is chosen when a listed name is 'llama3.2' or starts
\* with 'llama3.2:' (any tag of it); otherwise the first listed model whose
\* name does not contain 'vision'; otherwise none and the attempt has failed
C7_PreferredOrTaggedMatch ==
    Detected =>
        dDetected = IF \E k \in 1..Len(Usable(dTags)) : IsPreferredOrTagged(Usable(dTags)[k])
                    THEN LLAMA32
                    ELSE FirstWithoutVision(Usable(dTags))

C7_Witness ==
    /\ Detected
    /\ dTags.kind = "ok"
    /\ dTags.models = <<LLAMA32_VIS, MISTRAL, LLAMA32_TAG>>
    /\ dDetected = LLAMA32

----------------------------------------------------------------------------
(* Properties of the store *)

\* the vectors the store holds, in order
StoredVectors == [k \in 1..Len(Documents) |-> Documents[k].embedding]

\* C11: every stored chunk has one embedding vector and all stored vectors
\* have the same dimensionality (the statement of the claim; the client
\* re-selects its model at every connection check and the store keeps the
\* vectors of the earlier model)
C11_UniformDimension ==
    \A a, b \in 1..Len(Documents) :
        /\ Documents[a].embedding # <<>>
        /\ Len(Documents[a].embedding) = Len(Documents[b].embedding)

\* the pairs a step added at the end of the store
Added == SubSeq(Documents', Len(Documents) + 1, Len(Documents'))

\* the vectors the endpoint answered the embedding calls of the operation with
Answered == [k \in 1..Len(embLog) |-> embLog[k].resp.vec]

\* C12: the store changes only when addDocuments of an ingestion appends:
\* the client is connected, the store afterwards is the previous store
\* followed by one pair per chunk, in the order of the chunks, and (in the
\* SimpleVectorStore) the k-th new pair holds the vector answered for the
\* k-th chunk
C12_AppendsInOrder ==
    [][(Documents' # Documents /\ op'.kind # "clearVectorStore") =>
          /\ IsIngest
          /\ op' = op
          /\ isConnected
          /\ Len(Documents') = Len(Documents) + Len(op.chunks)
          /\ SubSeq(Documents', 1, Len(Documents)) = Documents
          /\ PageContents(Added) = op.chunks
          /\ Simple => [k \in 1..Len(Added) |-> Added[k].embedding] = Answered
          /\ Memory => StoredTexts' = StoredTexts \o op.chunks]_vars

C12_Witness ==
    /\ IsIngest
    /\ Settled
    /\ response.kind = "success"
    /\ op.chunks = <<"t2">>
    /\ StoredTexts = <<"t1", "t2">>
    /\ Len(Documents) = 2

----------------------------------------------------------------------------
(* Properties of the ranking *)

Ranked_Done == rResult # NotRanked

\* the score of the document at position a is a number
Scored(a) == ~IsNaN(rQuery, rDocs[a].embedding)

\* score(a) >= score(b), as numbers
ScoresAtLeast(a, b) ==
    /\ Scored(a)
    /\ Scored(b)
    /\ ~ScoresHigher(rQuery, rDocs[b].embedding, rDocs[a].embedding)

\* score(a) = score(b), as numbers
SameScore(a, b) == ScoresAtLeast(a, b) /\ ScoresAtLeast(b, a)

Returned == {rResult[r] : r \in 1..Len(rResult)}

\* C13: similaritySearch returns min(k, n) documents, in an order of
\* non-increasing score, each scoring at least as high as every document
\* left out (the statement of the claim; a score that is NaN is in no such
\* order)
C13_TopKByScore ==
    Ranked_Done =>
        /\ Len(rResult) = Min(rK, Len(rDocs))
        /\ \A r \in 1..(Len(rResult) - 1) : ScoresAtLeast(rResult[r], rResult[r + 1])
        /\ \A a \in Returned, b \in (1..Len(rDocs)) \ Returned : ScoresAtLeast(a, b)

\* C14: of two returned documents with the same score the one inserted
\* earlier comes first, and a document is not returned while an earlier one
\* of the same score is left out (the statement of the claim)
C14_TiesByInsertionOrder ==
    Ranked_Done =>
        /\ \A r1, r2 \in 1..Len(rResult) :
              (r1 < r2 /\ SameScore(rResult[r1], rResult[r2])) => rResult[r1] < rResult[r2]
        /\ \A a \in Returned, b \in (1..Len(rDocs)) \ Returned :
              SameScore(a, b) => a < b

\* with every score a number the order is the one C13 states
C13_HoldsWhenScored ==
    (\A a \in 1..Len(rDocs) : Scored(a)) => C13_TopKByScore

\* with a consistent comparator ties are in insertion order, as C14 states
C14_HoldsWhenConsistent ==
    Consistent(Negatives(rDocs, rQuery)) => C14_TiesByInsertionOrder

----------------------------------------------------------------------------
(* Properties of retrieval in the chat route *)

\* C15: a search of the empty store returns the empty sequence and never
\* raises, whatever the endpoint does (the statement of the claim; the
\* search initializes the store first, and that runs a connection check)
C15_EmptyStoreSearchNeverFails ==
    (IsPost /\ StoreSize = 0 /\ searchLog # <<>>) => searchLog[1] = Value(<<>>)

\* the embedding call of the request's search failed
QueryEmbeddingFailed == embLog # <<>> /\ Failed(embLog[Len(embLog)].resp)

\* C16: a failed query-embedding call is reported as an error of the
\* retrieval, not as an empty retrieval and not with an answer (the
\* statement of the claim; similaritySearch catches it and returns [])
C16_EmbeddingFailureReported ==
    (IsDocumentQuery /\ Settled /\ QueryEmbeddingFailed) =>
        /\ response.kind = "RetrievalFailed"
        /\ ~EmptyRetrieval

----------------------------------------------------------------------------
(* Properties of clearVectorStore *)

\* the state clearVectorStore() leaves the module in, before anything has
\* initialized the store again
Cleared == Memory /\ routeInit /\ vectorStore = <<>>

\* C17: clearVectorStore() leaves an empty store and does not touch the
\* client, and a search that follows it returns the empty result (the
\* statement of the claim; the search has to initialize the store again and
\* throws when the connection check of that fails)
C17_ClearThenSearchEmpty ==
    [][/\ op'.kind = "clearVectorStore" =>
            /\ StoreSize' = 0
            /\ Documents' = <<>>
            /\ UNCHANGED clientVars
       /\ (Cleared' /\ IsPost' /\ searchLog' # <<>>) => searchLog'[1] = Value(<<>>)]_vars

\* the effect and the frame of clearVectorStore() alone
C17_ClearFrame ==
    [][op'.kind = "clearVectorStore" =>
            /\ StoreSize' = 0
            /\ Documents' = <<>>
            /\ storedDocuments' = <<>>
            /\ UNCHANGED clientVars]_vars

----------------------------------------------------------------------------
(* Properties of the query path *)

IsPlainQuery == IsQuery /\ ~op.isPDFMode

\* where a request is that has gone neither into retrieval nor into ingestion
PlainLabels ==
    {"idle", "wfc_attempt", "wfc_sleep", "post_status",
     "gen_entry", "gen_checked", "gen_fetch", "post_generated"}

\* C18: a query with isPDFMode false makes no similarity search and no
\* embedding call, every prompt it sends is built from the system
\* instruction, the history and the message alone, and the context
\* returned with its answer is empty
C18_PlainSkipsRetrieval ==
    IsPlainQuery =>
        /\ pc \in PlainLabels
        /\ searchLog = <<>>
        /\ embLog = <<>>
        /\ contextChunks = <<>>
        /\ \A k \in 1..Len(genLog) :
              genLog[k].req.prompt =
                  [system |-> "plain", context |-> <<>>,
                   history |-> op.history, message |-> op.message]
        /\ (Settled /\ response.kind = "answer") =>
              /\ response.context = <<>>
              /\ Len(genLog) = 1

C18_Witness ==
    /\ IsPlainQuery
    /\ Settled
    /\ response.kind = "answer"
    /\ StoreSize > 0
    /\ op.history # <<>>

\* C19: the context returned with the answer of a document-mode query is
\* the sequence the search of this request returned, of 1 to
\* min(3, store size) stored chunks, and the one prompt sent to generate
\* holds these chunks
C19_ContextIsRetrieval ==
    (IsDocumentQuery /\ Settled /\ response.kind = "answer") =>
        /\ Len(searchLog) = 1
        /\ searchLog[1].tag = "return"
        /\ response.context = searchLog[1].payload
        /\ Len(response.context) >= 1
        /\ Len(response.context) <= Min(TopKDefault, StoreSize)
        /\ \A k \in 1..Len(response.context) :
              \E d \in 1..Len(StoredTexts) : response.context[k] = StoredTexts[d]
        /\ Len(genLog) = 1
        /\ genLog[1].req.prompt =
              [system |-> "pdf", context |-> response.context,
               history |-> op.history, message |-> op.message]
        /\ response.text = genLog[1].out.text

C19_Witness ==
    /\ IsDocumentQuery
    /\ Settled
    /\ response.kind = "answer"
    /\ StoreSize = 2
    /\ Len(response.context) = 2
    /\ response.context[1] # response.context[2]

\* a request without chunks whose message is missing or empty
IsInvalid == IsPost /\ Len(op.chunks) = 0 /\ op.message = ""

\* C20: a query without a message is answered ValidationFailed and no
\* discovery, retrieval or generation call is made for it (the statement of
\* the claim; the handler runs the connection check before it reads the
\* request)
C20_ValidationFirst ==
    IsInvalid =>
        /\ connLog = <<>>
        /\ searchLog = <<>>
        /\ genLog = <<>>
        /\ Settled => response.kind = "ValidationFailed"

----------------------------------------------------------------------------
(* Properties of the outcomes of a request *)

\* the five outcomes the interface names
NamedOutcomes ==
    {"success", "answer", "ValidationFailed", "NoRelevantContext",
     "ServiceUnavailable", "GenerationFailed"}

\* the connection check last run by the request made maxRetries attempts
\* and none found the endpoint
Exhausted == Count(connLog, "tags_fail") = maxRetries

\* the generate call of the request failed
GenerateFailed == \E k \in 1..Len(genLog) : Failed(genLog[k].out)

\* C21: a request ends in one of success, ValidationFailed,
\* NoRelevantContext, ServiceUnavailable or GenerationFailed; it ends in
\* ServiceUnavailable exactly when the endpoint was unreachable after the
\* retries, and then no embedding and no generation call was made; it ends
\* in GenerationFailed exactly when the generate call failed
C21_OutcomeMatchesCause ==
    (IsPost /\ Settled) =>
        /\ response.kind \in NamedOutcomes
        /\ response.kind = "ServiceUnavailable" <=> Exhausted
        /\ response.kind = "GenerationFailed" <=> GenerateFailed
        /\ response.kind = "ServiceUnavailable" =>
              /\ embLog = <<>>
              /\ genLog = <<>>

\* what holds of the handler: the outcomes it has besides the five, and
\* that only the check made on arrival is answered ServiceUnavailable
C21_OutcomesOfTheHandler ==
    (IsPost /\ Settled) =>
        /\ response.kind \in NamedOutcomes \cup {"RetrievalFailed", "InternalError"}
        /\ response.kind = "ServiceUnavailable" =>
              /\ Exhausted
              /\ embLog = <<>>
              /\ genLog = <<>>
              /\ searchLog = <<>>
        /\ response.kind = "GenerationFailed" <=> GenerateFailed
        /\ Exhausted =>
              response.kind \in {"ServiceUnavailable", "RetrievalFailed",
                                 "InternalError"}

----------------------------------------------------------------------------
(* Properties of the connection state *)

\* where the process is inside a store function or the store's class
StoreLabels ==
    {"sv_init", "sv_init_checked", "ivs", "ivs_inited", "adts", "adts_store",
     "add_inited", "add_push", "ssc", "ssc_store", "ss_inited", "ss_rank",
     "ivm", "ivm_checked", "adtm", "adtm_inited", "adtm_embed", "sscm",
     "sscm_inited", "sscm_query"}

\* the step is the answer of a generation or an embedding call
CallAnswered == pc \in {"gen_fetch", "emb_wait"}

\* the step is clearVectorStore()
ClearStep == pc = "idle" /\ op'.kind = "clearVectorStore"

\* C22: isConnected and modelName are written only by the discovery attempt
\* of a connection check that found a model; the answer of a generation or an
\* embedding call, failed or not, every step of the store's functions and
\* clearVectorStore() leave both unchanged, and isConnected is never reset
C22_OnlyChecksMutate ==
    [][/\ clientVars' # clientVars =>
             /\ pc = "wfc_attempt"
             /\ connLog' = Append(connLog, "tags_ok")
             /\ isConnected'
             /\ modelName' # NoModel
       /\ (CallAnswered \/ pc \in StoreLabels \/ ClearStep) =>
             UNCHANGED clientVars
       /\ isConnected => isConnected']_vars

\* a generate call has failed on the connected client, which is still
\* connected to the model it had chosen
C22_Witness ==
    /\ Settled
    /\ IsPost
    /\ response.kind = "GenerationFailed"
    /\ Failed(genLog[1].out)
    /\ isConnected
    /\ modelName = genLog[1].req.model

----------------------------------------------------------------------------
(* Properties of a resubmitted query *)

\* the request being served is a query that has not been answered yet
QueryInProgress == IsQuery /\ ~Settled

\* the outcomes of a document-mode query that follow its retrieval
AfterRetrieval == {"answer", "GenerationFailed", "NoRelevantContext"}

\* the outcomes of a query that follow its generation call
AfterGeneration == {"answer", "GenerationFailed"}

\* C23: no step of a query changes the documents of the store, and a query
\* is served from nothing kept by an earlier request: every query runs its
\* own connection check, a document-mode query that gets as far as an
\* answer, a generation failure or the no-context reply has run its own
\* search (with its own query embedding call when the SimpleVectorStore
\* holds chunks), and an answer or a generation failure comes from the one
\* generation call of this request
C23_QueryRunsInFull ==
    [][/\ QueryInProgress =>
             /\ Documents' = Documents
             /\ storedDocuments' = storedDocuments
       /\ (IsQuery /\ Settled)' =>
             /\ connLog' # <<>>
             /\ (op'.isPDFMode /\ response'.kind \in AfterRetrieval) =>
                   /\ Len(searchLog') = 1
                   /\ (Simple /\ StoreSize > 0) =>
                         /\ Len(embLog') = 1
                         /\ embLog'[1].text = op'.message
             /\ response'.kind \in AfterGeneration <=> Len(genLog') = 1
             /\ response'.kind \notin AfterGeneration => genLog' = <<>>]_vars

\* a document-mode query has failed in its generation call while the store
\* holds chunks: the request before it left nothing to answer it from
C23_Witness ==
    /\ IsDocumentQuery
    /\ Settled
    /\ response.kind = "GenerationFailed"
    /\ StoreSize = 2
    /\ routeInit
    /\ Len(searchLog) = 1
    /\ Len(genLog) = 1

----------------------------------------------------------------------------
(* Properties of the prompt *)

\* what a search of the present store can return for a query vector
RetrievalsOf(q) ==
    {TopK(Documents, order, TopKDefault) : order \in Sorted(Documents, q)}

\* the vectors the query of this request may have been embedded as
QueryVectors ==
    IF Simple
    THEN {embLog[k].resp.vec : k \in {j \in 1..Len(embLog) : embLog[j].resp.kind = "ok"}}
    ELSE VectorsOf(EmbeddingsModel)

\* C24: every prompt a query sends to generate is made of this request's
\* message, history and mode and of a retrieval from the present store for
\* this request's query vector: the instruction is chosen by isPDFMode,
\* history and message are the request's, and the context is empty in plain
\* mode and otherwise a non-empty top-3 of the store's chunks
C24_PromptFromRequestAndStore ==
    IsQuery =>
        \A k \in 1..Len(genLog) :
            LET p == genLog[k].req.prompt IN
            /\ p.history = op.history
            /\ p.message = op.message
            /\ p.system = (IF op.isPDFMode THEN "pdf" ELSE "plain")
            /\ IF op.isPDFMode
               THEN /\ p.context # <<>>
                    /\ \E q \in QueryVectors : p.context \in RetrievalsOf(q)
               ELSE p.context = <<>>

\* a document-mode query with a history has sent its prompt on a process
\* that served requests before
C24_Witness ==
    /\ IsDocumentQuery
    /\ pc = "post_generated"
    /\ routeInit
    /\ op.history # <<>>
    /\ StoreSize = 2
    /\ Len(genLog) = 1
    /\ Len(genLog[1].req.prompt.context) = 2

----------------------------------------------------------------------------
(* Properties of the retrieval scenario *)

\* the scenario has run: the three sentences were ingested in order and
\* the question was searched for
ScenarioSearched ==
    /\ PageContents(rDocs) = <<CatSat, RainFell, CatSlept>>
    /\ rK = TopKDefault
    /\ rQuery = StubEmbed(sStub, WhereSleep)

\* C27: in the scenario the first result is "The cat slept." (the statement
\* of the claim)
C27_TopIsCatSlept == ScenarioSearched => rResult[1] = CatSlept

\* the two sentences about the cat share the same tokens with the question
\* and score the same; the sort keeps them in insertion order
C27_TopIsFirstOfTie ==
    ScenarioSearched =>
        /\ ~ScoresHigher(rQuery, rDocs[1].embedding, rDocs[3].embedding)
        /\ ~ScoresHigher(rQuery, rDocs[3].embedding, rDocs[1].embedding)
        /\ ScoresHigher(rQuery, rDocs[3].embedding, rDocs[2].embedding)
        /\ rResult = <<CatSat, CatSlept, RainFell>>

C27_Witness ==
    /\ ScenarioSearched
    /\ sStub = "folded"
    /\ Dot(rQuery, rDocs[3].embedding) = 2

----------------------------------------------------------------------------
(* Properties of the score of a vector against itself *)

\* the documents whose stored embedding is the query embedding
OwnEmbedding == {d \in 1..Len(rDocs) : rDocs[d].embedding = rQuery}

\* cosineSimilarity(q, v) is 1: the score is a number, the dot product is
\* positive and its square is the product of the squared magnitudes
ScoresOne(q, v) ==
    /\ ~IsNaN(q, v)
    /\ Dot(q, v) > 0
    /\ Dot(q, v) * Dot(q, v) = Dot(q, q) * Dot(v, v)

\* C28: a stored non-zero vector searched for with itself scores 1; no
\* document of the store scores higher, and when every score is a number
\* and a result is asked for, the first result scores 1 too
C28_SelfScoreIsMaximal ==
    Ranked_Done =>
        \A d \in OwnEmbedding :
            /\ ScoresOne(rQuery, rDocs[d].embedding)
            /\ \A e \in 1..Len(rDocs) :
                  Scored(e) =>
                      ~ScoresHigher(rQuery, rDocs[e].embedding, rDocs[d].embedding)
            /\ (rK >= 1 /\ \A e \in 1..Len(rDocs) : Scored(e)) =>
                  ScoresOne(rQuery, rDocs[rResult[1]].embedding)

\* a store was searched with the embedding of one of its documents while
\* other documents score lower, and one of them was inserted first
C28_Witness ==
    /\ Ranked_Done
    /\ rK >= 1
    /\ Len(rDocs) = 3
    /\ OwnEmbedding = {2}
    /\ \A e \in 1..Len(rDocs) : Scored(e)
    /\ ScoresHigher(rQuery, rDocs[2].embedding, rDocs[1].embedding)
    /\ rResult[1] = 2

----------------------------------------------------------------------------
(* Properties of the recorded model name *)

\* the names the discovery call listed
Listed == {Usable(dTags)[k] : k \in 1..Len(Usable(dTags))}

\* C29: the name an attempt that succeeds records is the name of a model in
\* the listing of that discovery call (the statement of the claim; for a
\* listed 'llama3.2:<tag>' the code records the literal 'llama3.2')
C29_RecordedNameIsListed ==
    (Detected /\ AttemptSucceeded(dDetected)) => dDetected \in Listed

\* what holds: the recorded name is listed, or it is 'llama3.2' and a tag
\* of it is listed
C29_ListedOrTagOfPreferred ==
    (Detected /\ AttemptSucceeded(dDetected)) =>
        \/ dDetected \in Listed
        \/ /\ dDetected = LLAMA32
           /\ \E name \in Listed : IsPreferredOrTagged(name)

----------------------------------------------------------------------------
(* Properties of a failed addDocuments *)

\* an embedding call of the operation has failed
EmbeddingFailed == \E k \in 1..Len(embLog) : embLog[k].resp.kind # "ok"

\* the step changes the chunks held
ChunksChange == Documents' # Documents \/ storedDocuments' # storedDocuments

\* C30: an ingestion changes the chunks held only in the step in which
\* addDocuments returns normally to the handler, with every embedding call
\* answered and the connection check not exhausted; a failed connection
\* check or embedding call reaches the handler as a thrown error, and the
\* handler then answers with an error and changes no chunk
C30_AllOrNothing ==
    [][/\ (IsIngest /\ op' = op /\ ChunksChange) =>
             /\ pc' = "post_added"
             /\ result'.tag = "return"
             /\ ~EmbeddingFailed
             /\ ~Exhausted
       /\ (IsIngest /\ pc' = "post_added" /\ pc # "post_added"
             /\ (EmbeddingFailed' \/ Exhausted')) =>
             result'.tag = "throw"
       /\ (IsIngest /\ pc = "post_added") =>
             /\ ~ChunksChange
             /\ response'.kind = "success" <=> result.tag = "return"
             /\ response'.kind = "InternalError" <=> result.tag = "throw"]_vars

\* a batch of two chunks whose second embedding call failed: the first
\* vector was answered, the ingestion ended in an error and the store,
\* empty before, holds no chunk
C30_Witness ==
    /\ IsIngest
    /\ Settled
    /\ response.kind = "InternalError"
    /\ Simple
    /\ Len(op.chunks) = 2
    /\ Len(embLog) = 2
    /\ embLog[1].resp.kind = "ok"
    /\ embLog[2].resp.kind # "ok"
    /\ StoreExists
    /\ StoreSize = 0

----------------------------------------------------------------------------
(* Properties of concurrent addDocuments calls *)

\* the positions of the store that hold a chunk of call c
BlockOf(c) ==
    {d \in 1..Len(aStore.documents) : aStore.documents[d].pageContent[1] = c}

\* C31: every stored chunk is paired with the vector the endpoint answered
\* for its own text, and the chunks of a call are in the store only once the
\* call has pushed, all of them, in one contiguous block in input order
C31_OwnEmbeddingContiguous ==
    \A c \in AddCalls :
        IF aCalls[c].pc = "done"
        THEN \E first \in 1..Len(aStore.documents) :
                /\ BlockOf(c) = first..(first + Len(aCalls[c].texts) - 1)
                /\ \A k \in 1..Len(aCalls[c].texts) :
                      aStore.documents[first + k - 1] =
                          [pageContent |-> aCalls[c].texts[k],
                           embedding |-> aCalls[c].embeddings[k]]
        ELSE BlockOf(c) = {}

\* call 2 has pushed its two chunks while call 1, started on the
\* uninitialized store as well, has one of its two vectors
C31_Witness ==
    /\ aCalls[2].pc = "done"
    /\ Len(aCalls[2].texts) = 2
    /\ aCalls[2].embeddings[1] # aCalls[2].embeddings[2]
    /\ aCalls[1].pc = "fetch"
    /\ Len(aCalls[1].texts) = 2
    /\ Len(aCalls[1].embeddings) = 1
    /\ Len(aStore.documents) = 2

----------------------------------------------------------------------------
(* Properties of the concurrent store functions *)

\* no call of a store function is in flight
Quiescent == \A p \in MemProcs : mProcs[p].pc = "idle"

\* C32: the k-th stored chunk has the id doc-(k-1), and no two stored
\* chunks share an id (the statement of the claim; two overlapping calls
\* both read storedDocuments.length before either pushes)
C32_UniqueIds ==
    /\ \A k \in 1..Len(mStored) : mStored[k].id = k - 1
    /\ \A j, k \in 1..Len(mStored) : j # k => mStored[j].id # mStored[k].id

\* C33: with a store and no call in flight, the store holds exactly the
\* documents of storedDocuments (the statement of the claim; a second
\* initialisation replaces the store another call is adding to)
C33_StoreIsStoredDocuments ==
    (Quiescent /\ mCur # 0) => mObjs[mCur] = mStored

\* C34: with no call in flight, no chunk of a call that had started when
\* clearVectorStore ran is in storedDocuments or in the store (the
\* statement of the claim; an addDocumentsToStore awaiting its embeddings
\* pushes after the clear)
C34_ClearIsTotal ==
    Quiescent =>
        /\ \A k \in 1..Len(mStored) : mStored[k].pageContent[1] \notin mPreClear
        /\ mCur # 0 =>
              \A k \in 1..Len(mObjs[mCur]) :
                  mObjs[mCur][k].pageContent[1] \notin mPreClear

----------------------------------------------------------------------------
(* An ingestion is an ingestion only *)

\* the last n texts the store holds
LastTexts(n) ==
    IF n > Len(StoredTexts) THEN <<"fewer than n">>
    ELSE SubSeq(StoredTexts, Len(StoredTexts) - n + 1, Len(StoredTexts))

\* C36: no step of a request with a non-empty chunks array calls generate,
\* with or without a message in the request; the request is answered with
\* {success: true} or with an error, and when it is answered with
\* {success: true} its chunks are the last the store holds, in order
C36_IngestionOnly ==
    [][(IsIngest /\ op' = op) =>
          /\ genLog' = <<>>
          /\ (~Settled /\ Settled') =>
                /\ response'.kind \in {"success", "InternalError", "ServiceUnavailable"}
                /\ response'.kind = "success" =>
                      LastTexts(Len(op.chunks))' = op.chunks]_vars

\* an ingestion of two chunks that carried a message was answered with
\* {success: true}
C36_Witness ==
    /\ IsIngest
    /\ Settled
    /\ op.message # ""
    /\ Len(op.chunks) = 2
    /\ response.kind = "success"
    /\ genLog = <<>>
    /\ LastTexts(2) = op.chunks

----------------------------------------------------------------------------
(* Every request is answered, once *)

\* the chat request has been answered
PostAnswered == IF IsPost /\ Settled THEN response # NoResponse ELSE FALSE

\* C35: with every awaited call completing or failing, a chat request in
\* progress is eventually answered; an operation in progress stands at a
\* position from which a step of the program moves it on, so that no
\* request waits for a step that cannot come; each connection check of a
\* request makes at most maxRetries discovery attempts; the response of a
\* request is unset while it runs and is set in the one step that ends it
C35_AnsweredOnce ==
    /\ [](pc \in Labels /\ (pc # "idle" => ENABLED <<NextChat>>_pc))
    /\ [][(IsPost /\ ~Settled) =>
             /\ op' = op
             /\ pc' # pc
             /\ Attempts(connLog') <= maxRetries
             /\ response = NoResponse
             /\ Settled' <=> response' # NoResponse]_vars
    /\ (IsPost /\ ~Settled) ~> PostAnswered

\* a query was answered with an error after its connection check had made
\* all its maxRetries attempts
C35_Witness ==
    /\ IsQuery
    /\ Settled
    /\ Attempts(connLog) = maxRetries
    /\ response.kind = "ServiceUnavailable"

----------------------------------------------------------------------------
(* Properties of the chat component *)

\* the step in which the upload h ends as `to`
UploadEnds(h, to) ==
    /\ h <= Len(uHandlers)
    /\ uHandlers[h].kind = "upload"
    /\ uHandlers[h].pc \in {"process", "fetch"}
    /\ uHandlers'[h].pc = to

\* C37: isPDFMode is true exactly when selectedFile is set, in every state
\* and so in every settled one; selectedFile becomes set only in the step
\* in which the fetch of an upload has answered ok, and to the file of that
\* upload; the step in which an upload fails leaves selectedFile null,
\* isPDFMode false, no message and isLoading false
C37_ModeIffFile ==
    /\ [](uIsPDFMode <=> uSelectedFile # NULL)
    /\ [][/\ (uSelectedFile' # NULL /\ uSelectedFile' # uSelectedFile) =>
               \E h \in 1..MaxHandlers :
                  /\ UploadEnds(h, "done")
                  /\ uHandlers[h].pc = "fetch"
                  /\ uSelectedFile' = uHandlers[h].arg
          /\ \A h \in 1..MaxHandlers :
               UploadEnds(h, "failed") =>
                  /\ uSelectedFile' = NULL
                  /\ ~uIsPDFMode'
                  /\ uMessages' = <<>>
                  /\ ~uIsLoading']_vars

\* an upload failed after another one had set its file: no file, no
\* document mode, no message, not loading, and no handler in flight
C37_Witness ==
    /\ \E g, h \in 1..Len(uHandlers) :
          /\ uHandlers[g].kind = "upload" /\ uHandlers[g].pc = "done"
          /\ uHandlers[h].kind = "upload" /\ uHandlers[h].pc = "failed"
    /\ \A h \in 1..Len(uHandlers) : uHandlers[h].pc \in {"done", "failed"}
    /\ uSelectedFile = NULL
    /\ ~uIsPDFMode
    /\ uMessages = <<>>
    /\ ~uIsLoading
    /\ uError # NULL

\* C38: when the list starts with the greeting of an upload, every other
\* message of it belongs to a submission made after that upload completed
\* (the statement of the claim; the drop zone is not disabled while a
\* submission is in flight, and its answer is appended to the list as it
\* is when the answer arrives)
C38_NoStaleAnswer ==
    (Len(uMessages) > 0 /\ uMessages[1].seen > 0) =>
        \A k \in 2..Len(uMessages) : uMessages[k].of > uMessages[1].seen

----------------------------------------------------------------------------
(* The split route validates, then copies *)

RECURSIVE PagesOf(_)
\* the page numbers of the ranges, one range after the other
PagesOf(ranges) ==
    IF ranges = <<>> THEN <<>>
    ELSE [n \in 1..(Head(ranges).end - Head(ranges).start + 1) |->
              Head(ranges).start + n - 1] \o PagesOf(Tail(ranges))

RECURSIVE PageTotal(_)
PageTotal(ranges) ==
    IF ranges = <<>> THEN 0
    ELSE (Head(ranges).end - Head(ranges).start + 1) + PageTotal(Tail(ranges))

\* a range of the request has start < 1, end > pageCount or start > end
SomeRangeInvalid ==
    \E k \in 1..Len(spRequest.ranges) :
        \/ spRequest.ranges[k].start < 1
        \/ spRequest.ranges[k].end > spRequest.pageCount
        \/ spRequest.ranges[k].start > spRequest.ranges[k].end

\* the request came with a file that was loaded
SplitLoadedFile == spRequest.file /\ spRequest.pageCount > 0

\* C39: with a range of the request invalid no page is ever copied, and
\* the request of a loaded file is answered 400 without a PDF; with every
\* range valid the answer is the PDF or the 500 of a failed library call,
\* and the PDF holds the pages of the ranges in request order,
\* end - start + 1 of them per range
C39_ValidatedBeforeCopy ==
    /\ (SplitLoadedFile /\ SomeRangeInvalid) =>
          /\ spCopied = <<>>
          /\ spPc \notin {"copy", "save"}
          /\ spPc = "done" => spResponse = SplitReply(400, <<>>)
    /\ (SplitLoadedFile /\ ~SomeRangeInvalid /\ spPc = "done") =>
          spResponse.code \in {200, 500}
    /\ (spPc = "done" /\ spResponse.code = 200) =>
          /\ ~SomeRangeInvalid
          /\ spResponse.pdf = PagesOf(spRequest.ranges)
          /\ Len(spResponse.pdf) = PageTotal(spRequest.ranges)

\* a request whose first range is valid and whose second is not was
\* answered 400 with no page copied
C39_Witness ==
    /\ spPc = "done"
    /\ spRequest.file
    /\ spRequest.pageCount = 2
    /\ spRequest.ranges = <<[start |-> 1, end |-> 2], [start |-> 2, end |-> 3]>>
    /\ spResponse = SplitReply(400, <<>>)
    /\ spCopied = <<>>

====
